---- MODULE Spec2Model ----
(***************************************************************************)
(* Model of the AI_TRPG Discord game-master bot: SessionManager (session   *)
(* registry and per-user asyncio locks), Character, Enemy, GameSession     *)
(* (apply_ai_response), GameService (start_game, end_game, proceed_game,   *)
(* use_item, buy_item, equip_item, flee_combat) and the Discord handlers   *)
(* that call them (thread message, slash commands, view callbacks).        *)
(*                                                                         *)
(* Every handler invocation is a task of the single asyncio event loop.    *)
(* A task runs without interruption between two awaits that really         *)
(* suspend (Discord I/O, the AI backend, file I/O, a contended lock), so   *)
(* one action of the model is the code between two such awaits.            *)
(***************************************************************************)
EXTENDS Integers, Sequences, FiniteSets, TLC

\* ------------------------------------------------------------------ bounds
\* handler invocations in one run (every handler creates at most one
\* session object and at most one lock object)
MaxOps == 3

\* ------------------------------------------------------------ static data
Tasks == {"t1", "t2"}
Users == {"u1", "u2"}
\* the users whose handlers run when a single player is followed
Players == {"u1"}
None == "none"

\* world data (locations, enemies, items, shops) as loaded by WorldDataLoader
StartLocation == "town"
Locations == {"town", "vault", "shrine", "cave"}

\* locations[loc].requirements.item / .consume
ReqItem(loc) == IF loc = "vault" THEN "brass_key" ELSE None
ReqConsume(loc) == FALSE
\* locations[loc].requirements.quest = {id, status}
ReqQuest(loc) == IF loc = "shrine" THEN <<"q1", "active">> ELSE <<>>
HasRequirements(loc) == ReqItem(loc) # None \/ ReqQuest(loc) # <<>>
\* locations[loc].on_enter: the cave's trap carries no event_id and no
\* "once" key, the shrine's encounter carries both
NoEvent == [type |-> None]
OnEnter(loc) ==
    CASE loc = "cave" ->
           [type |-> "trap", event_id |-> None, once |-> TRUE,
            narrative |-> "cave_trap", damage |-> 3, enemies |-> <<>>]
      [] loc = "shrine" ->
           [type |-> "encounter", event_id |-> "shrine_ambush", once |-> TRUE,
            narrative |-> "shrine_ambush_begins", damage |-> 0,
            enemies |-> <<"goblin">>]
      [] OTHER -> NoEvent

\* enemies[id]: hp and reward table
EnemyTemplates == {"goblin"}
EnemyHp(id) == 5
EnemyStr(id) == 12
EnemyDex(id) == 12
RewardXp(id) == 50
RewardGold(id) == 10
RewardItems(id) == <<"fang">>

\* items[name].consumable / .equipment_type
Consumable(item) == item = "potion"
EquipmentType(item) == IF item = "sword" THEN "weapon" ELSE None
\* shops: one shop at the start location selling potions
ShopLocation == "town"
ShopItems == {"potion"}
Price(item) == 10

\* npcs[id].quest_triggers[disposition]
QuestTrigger(npc, disposition) ==
    IF npc = "elder" /\ disposition = "friendly" THEN "q1" ELSE None

\* ------------------------------------------------------------ sequences
RECURSIVE SeqSum(_)
SeqSum(s) == IF s = <<>> THEN 0 ELSE Head(s) + SeqSum(Tail(s))

InSeq(x, s) == \E i \in 1..Len(s) : s[i] = x

\* list.remove(x): removes the first occurrence
RECURSIVE RemoveFirst(_, _)
RemoveFirst(s, x) ==
    IF s = <<>> THEN <<>>
    ELSE IF Head(s) = x THEN Tail(s)
    ELSE <<Head(s)>> \o RemoveFirst(Tail(s), x)

Max(a, b) == IF a >= b THEN a ELSE b
Min(a, b) == IF a <= b THEN a ELSE b

\* --------------------------------------------------------------- Character
\* the character document a player has on disk before any game
InitCharacter ==
    [hp |-> 10, max_hp |-> 10, mp |-> 5, max_mp |-> 5,
     level |-> 1, xp |-> 0, stat_points |-> 0, skill_points |-> 0,
     gold |-> 20, inventory |-> <<"potion", "sword">>,
     equipment |-> [weapon |-> None, armor |-> None],
     active_quests |-> <<>>, completed_quests |-> <<>>,
     base_stats |-> [STR |-> 10, DEX |-> 10, CON |-> 10],
     skills |-> [k \in {"sword"} |-> 1]]

\* a threshold of half the documented cost
xp_to_next_level_halved(c) == c.level * 50

xp_to_next_level(c) == c.level * 100

\* Character.add_xp: the while loop, one level per iteration
RECURSIVE LevelLoop(_)
LevelLoop(c) ==
    IF c.xp >= xp_to_next_level(c)
    THEN LevelLoop([c EXCEPT !.xp = c.xp - xp_to_next_level(c),
                             !.level = c.level + 1,
                             !.stat_points = c.stat_points + 1,
                             !.skill_points = c.skill_points + 5])
    ELSE c

\* an add_xp that banks the experience and never levels up
add_xp_without_loop(c, amount) == [c EXCEPT !.xp = c.xp + amount]

add_xp(c, amount) == LevelLoop([c EXCEPT !.xp = c.xp + amount])

\* a leveled_up that misses the level-up at the exact threshold
add_xp_returns_above_threshold(c, amount) == c.xp + amount > xp_to_next_level(c)

\* leveled_up: the loop body ran at least once
add_xp_returns(c, amount) == c.xp + amount >= xp_to_next_level(c)

\* str.upper on the stat names a caller passes
upper(stat_name) ==
    CASE stat_name = "str" -> "STR"
      [] stat_name = "dex" -> "DEX"
      [] stat_name = "con" -> "CON"
      [] stat_name = "luck" -> "LUCK"
      [] OTHER -> stat_name

use_stat_point(c, stat_name) ==
    LET stat == upper(stat_name)
    IN IF c.stat_points > 0 /\ stat \in DOMAIN c.base_stats
       THEN [c EXCEPT !.stat_points = c.stat_points - 1,
                      !.base_stats[stat] = c.base_stats[stat] + 1]
       ELSE c

use_stat_point_returns(c, stat_name) ==
    c.stat_points > 0 /\ upper(stat_name) \in DOMAIN c.base_stats

\* a use_skill_points that never compares the request with the pool
use_skill_points_overdrawing(c, skill_name, points_to_use) ==
    IF points_to_use <= 0 THEN c
    ELSE LET skills == IF skill_name \in DOMAIN c.skills THEN c.skills
                       ELSE [k \in DOMAIN c.skills \cup {skill_name} |->
                               IF k = skill_name THEN 0 ELSE c.skills[k]]
         IN [c EXCEPT !.skill_points = c.skill_points - points_to_use,
                      !.skills = [skills EXCEPT ![skill_name] = @ + points_to_use]]

use_skill_points(c, skill_name, points_to_use) ==
    IF points_to_use <= 0 \/ c.skill_points < points_to_use THEN c
    ELSE LET skills == IF skill_name \in DOMAIN c.skills THEN c.skills
                       ELSE [k \in DOMAIN c.skills \cup {skill_name} |->
                               IF k = skill_name THEN 0 ELSE c.skills[k]]
         IN [c EXCEPT !.skill_points = c.skill_points - points_to_use,
                      !.skills = [skills EXCEPT ![skill_name] = @ + points_to_use]]

use_skill_points_returns(c, skill_name, points_to_use) ==
    ~(points_to_use <= 0 \/ c.skill_points < points_to_use)

add_item(c, item) ==
    IF InSeq(item, c.inventory) THEN c
    ELSE [c EXCEPT !.inventory = Append(c.inventory, item)]

RECURSIVE add_items(_, _)
add_items(c, items) ==
    IF items = <<>> THEN c ELSE add_items(add_item(c, Head(items)), Tail(items))

remove_item(c, item) ==
    [c EXCEPT !.inventory = RemoveFirst(c.inventory, item)]

equip(c, item, slot) ==
    LET c1 == remove_item(c, item)
        c2 == IF c1.equipment[slot] # None
              THEN [c1 EXCEPT !.inventory = Append(c1.inventory, c1.equipment[slot])]
              ELSE c1
    IN [c2 EXCEPT !.equipment[slot] = item]

\* a start_quest that only looks at the active list
start_quest_unchecked(c, quest_id) ==
    IF ~InSeq(quest_id, c.active_quests)
    THEN [c EXCEPT !.active_quests = Append(@, quest_id)]
    ELSE c

start_quest(c, quest_id) ==
    IF ~InSeq(quest_id, c.active_quests) /\ ~InSeq(quest_id, c.completed_quests)
    THEN [c EXCEPT !.active_quests = Append(@, quest_id)]
    ELSE c

complete_quest(c, quest_id) ==
    IF InSeq(quest_id, c.active_quests)
    THEN [c EXCEPT !.active_quests = RemoveFirst(@, quest_id),
                   !.completed_quests = IF InSeq(quest_id, @) THEN @
                                        ELSE Append(@, quest_id)]
    ELSE c

\* the quest_updates loop of apply_state_changes over the items of the
\* dict, here a sequence of <<quest id, status>> pairs
RECURSIVE apply_quest_updates(_, _)
apply_quest_updates(c, updates) ==
    IF updates = <<>> THEN c
    ELSE LET quest_id == Head(updates)[1]
             status == Head(updates)[2]
             c1 == IF status = "completed" THEN complete_quest(c, quest_id)
                   ELSE IF status = "active" THEN start_quest(c, quest_id)
                   ELSE c
         IN apply_quest_updates(c1, Tail(updates))

\* Character.unequip and the boolean it returns
unequip_returns(c, slot) == c.equipment[slot] # None
unequip(c, slot) ==
    IF c.equipment[slot] # None
    THEN [c EXCEPT !.inventory = Append(c.inventory, c.equipment[slot]),
                   !.equipment[slot] = None]
    ELSE c

take_damage(c, amount) == [c EXCEPT !.hp = Max(0, c.hp - amount)]
heal_hp(c, amount) == [c EXCEPT !.hp = Min(c.max_hp, c.hp + amount)]

\* Character.spend_mp and the boolean it returns
spend_mp_returns(c, amount) == c.mp >= amount
spend_mp(c, amount) ==
    IF c.mp >= amount THEN [c EXCEPT !.mp = c.mp - amount] ELSE c
recover_mp(c, amount) == [c EXCEPT !.mp = Min(c.max_mp, c.mp + amount)]

is_dead(c) == c.hp <= 0

\* Character.stats["CON"] // 2 (no item of the world carries a CON bonus)
defense(c) == c.base_stats.CON \div 2
\* Character.get_modifier("DEX") = (DEX - 10) // 2, floor division
get_modifier_DEX(c) == (c.base_stats.DEX - 10) \div 2

\* Character.apply_state_changes for the keys a reply can carry
apply_state_changes(c, sc) ==
    LET c1 == IF sc.xp_gain # 0 THEN add_xp(c, sc.xp_gain) ELSE c
        c2 == [c1 EXCEPT !.gold = c1.gold + sc.gold_change]
        c3 == IF sc.hp_change > 0 THEN heal_hp(c2, sc.hp_change)
              ELSE IF sc.hp_change < 0 THEN take_damage(c2, -sc.hp_change)
              ELSE c2
    IN add_items(c3, sc.new_items)

\* ------------------------------------------------------------------- Enemy
\* Enemy(base_data): hp = max_hp = template hp; instance_id is a fresh uuid,
\* here the position in the encounter that creates it
NewEnemy(id, n) == [enemy_id |-> id, instance_id |-> n,
                    hp |-> EnemyHp(id), max_hp |-> EnemyHp(id)]

NewEnemies(ids) == [i \in 1..Len(ids) |-> NewEnemy(ids[i], i)]

\* ------------------------------------------------------------- AI replies
\* The JSON object the backend returns for one turn.  narrative: a non-empty
\* narrative is present (every reply carries the same narrative text, the
\* replies differ in their state_changes); sc: a state_changes object is
\* present; name tells the replies apart and is not part of the JSON.
NarrativeText == "narrative"
NoChanges ==
    [name |-> "plain", narrative |-> TRUE, sc |-> FALSE,
     xp_gain |-> 0, hp_change |-> 0, gold_change |-> 0, new_items |-> <<>>,
     cur_loc |-> None, loc_change |-> None, npc_updates |-> None,
     combat |-> None, enemies |-> <<>>, enemy_actions |-> <<>>,
     enemy_damage |-> 0, game_over |-> FALSE]

Changes == [NoChanges EXCEPT !.sc = TRUE]

Replies ==
    { NoChanges,
      [Changes EXCEPT !.name = "gain", !.xp_gain = 100, !.gold_change = 5,
                      !.new_items = <<"brass_key">>],
      [Changes EXCEPT !.name = "hurt", !.hp_change = -10],
      [Changes EXCEPT !.name = "start1", !.combat = "start",
                      !.enemies = <<"goblin">>],
      [Changes EXCEPT !.name = "start2", !.combat = "start",
                      !.enemies = <<"goblin", "goblin">>],
      [Changes EXCEPT !.name = "end", !.combat = "end"],
      [Changes EXCEPT !.name = "hit", !.enemy_damage = 5],
      [Changes EXCEPT !.name = "to_vault", !.cur_loc = "vault"],
      [Changes EXCEPT !.name = "to_shrine", !.cur_loc = "shrine"],
      [Changes EXCEPT !.name = "jump_vault", !.loc_change = "vault"],
      [Changes EXCEPT !.name = "push_vault", !.cur_loc = "vault",
                      !.loc_change = "vault", !.gold_change = 5],
      [Changes EXCEPT !.name = "to_cave", !.cur_loc = "cave"],
      [Changes EXCEPT !.name = "befriend", !.npc_updates = "list"],
      [Changes EXCEPT !.name = "ambush", !.npc_updates = "list",
                      !.combat = "start", !.enemies = <<"goblin">>],
      [Changes EXCEPT !.name = "die", !.hp_change = -10, !.game_over = TRUE] }

ReplyNamed(n) == CHOOSE r \in Replies : r.name = n

\* the npc_updates list of the "befriend" reply: [{id: elder, disposition: friendly}]
NpcUpdateId == "elder"
NpcUpdateDisposition == "friendly"

\* ------------------------------------------------------------- GameSession
\* GameSession.__init__
NewSession(user, character) ==
    [user_id |-> user, character |-> character, thread_id |-> 0,
     current_location_id |-> None, turn_count |-> 0,
     conversation_history |-> <<>>, npc_states |-> [elder |-> None],
     in_combat |-> FALSE, current_enemies |-> <<>>, combat_turn |-> "player",
     quests |-> [q1 |-> "inactive"], triggered_events |-> {}]

HistoryLimit == 20

Entry(role, content, notes) == [role |-> role, content |-> content, notes |-> notes]

\* an add_history that makes room by dropping the newest entry
add_history_dropping_newest(s, role, content, notes) ==
    LET h == IF Len(s.conversation_history) >= HistoryLimit
             THEN SubSeq(s.conversation_history, 1,
                         Len(s.conversation_history) - 1)
             ELSE s.conversation_history
    IN [s EXCEPT !.conversation_history = Append(h, Entry(role, content, notes))]

add_history(s, role, content, notes) ==
    LET h == IF Len(s.conversation_history) >= HistoryLimit
             THEN Tail(s.conversation_history)
             ELSE s.conversation_history
    IN [s EXCEPT !.conversation_history = Append(h, Entry(role, content, notes))]

start_combat(s, enemies) ==
    [s EXCEPT !.in_combat = TRUE, !.current_enemies = enemies,
              !.combat_turn = "player"]

\* an end_combat that clears the flag and keeps the enemy list
end_combat_keeping_enemies(s) == [s EXCEPT !.in_combat = FALSE]

end_combat(s) == [s EXCEPT !.in_combat = FALSE, !.current_enemies = <<>>]

\* rewards summed over session.current_enemies (combat status "end")
RewardXpOf(enemies) == SeqSum([i \in 1..Len(enemies) |-> RewardXp(enemies[i].enemy_id)])
RewardGoldOf(enemies) == SeqSum([i \in 1..Len(enemies) |-> RewardGold(enemies[i].enemy_id)])
RECURSIVE RewardItemsOf(_)
RewardItemsOf(enemies) ==
    IF enemies = <<>> THEN <<>>
    ELSE RewardItems(Head(enemies).enemy_id) \o RewardItemsOf(Tail(enemies))

\* enemy_actions: every listed enemy that is in current_enemies attacks for
\* max(1, attack_power - defense)
RECURSIVE EnemyAttacks(_, _, _)
EnemyAttacks(c, enemies, actions) ==
    IF actions = <<>> THEN c
    ELSE LET found == \E i \in 1..Len(enemies) : enemies[i].enemy_id = Head(actions)
             dmg == Max(1, EnemyStr(Head(actions)) - defense(c))
         IN EnemyAttacks(IF found THEN take_damage(c, dmg) ELSE c, enemies, Tail(actions))

\* the "end" branch of the combat update
CombatEnd(s) ==
    LET xp == RewardXpOf(s.current_enemies)
        gold == RewardGoldOf(s.current_enemies)
        items == RewardItemsOf(s.current_enemies)
        c1 == IF xp > 0 THEN add_xp(s.character, xp) ELSE s.character
        c2 == IF gold > 0 THEN [c1 EXCEPT !.gold = c1.gold + gold] ELSE c1
        c3 == add_items(c2, items)
    IN end_combat([s EXCEPT !.character = c3])

\* the "start" branch: one Enemy per listed id that names a template
KnownEnemies(ids) == SelectSeq(ids, LAMBDA id : id \in EnemyTemplates)

CombatStart(s, ids) ==
    IF KnownEnemies(ids) # <<>>
    THEN start_combat(s, NewEnemies(KnownEnemies(ids)))
    ELSE s

\* an apply_ai_response that records the narrative without the user input
apply_ai_response_skipping_user_entry(s, user_input, r, notes) ==
    LET s1 == [s EXCEPT !.turn_count = s.turn_count + 1]
        s2 == IF r.narrative \/ notes # <<>>
              THEN add_history(s1, "assistant", NarrativeText, notes)
              ELSE s1
        s3 == [s2 EXCEPT !.character = apply_state_changes(s2.character, r)]
        s4 == IF r.loc_change # None
              THEN [s3 EXCEPT !.current_location_id = r.loc_change]
              ELSE s3
        s5 == [s4 EXCEPT !.character =
                   EnemyAttacks(s4.character, s4.current_enemies, r.enemy_actions)]
        s6 == IF r.combat = "start" THEN CombatStart(s5, r.enemies)
              ELSE IF r.combat = "end" THEN CombatEnd(s5)
              ELSE s5
    IN IF ~r.sc THEN [s |-> s2, raised |-> FALSE]
       ELSE IF r.npc_updates = "list" THEN [s |-> s5, raised |-> TRUE]
       ELSE [s |-> s6, raised |-> FALSE]

\* GameSession.apply_ai_response(user_input, response_data, world_data).
\* r is the response as proceed_game hands it over: narrative (with the
\* notes proceed_game appended) and the remaining state_changes.
\* Returns the session and whether the call raised: npc_updates given as a
\* list has no .items(), the AttributeError leaves what was applied before.
apply_ai_response(s, user_input, r, notes) ==
    LET s1 == [s EXCEPT !.turn_count = s.turn_count + 1]
        s2 == IF r.narrative \/ notes # <<>>
              THEN add_history(add_history(s1, "user", user_input, <<>>),
                               "assistant", NarrativeText, notes)
              ELSE s1
        s3 == [s2 EXCEPT !.character = apply_state_changes(s2.character, r)]
        s4 == IF r.loc_change # None
              THEN [s3 EXCEPT !.current_location_id = r.loc_change]
              ELSE s3
        s5 == [s4 EXCEPT !.character =
                   EnemyAttacks(s4.character, s4.current_enemies, r.enemy_actions)]
        s6 == IF r.combat = "start" THEN CombatStart(s5, r.enemies)
              ELSE IF r.combat = "end" THEN CombatEnd(s5)
              ELSE s5
    IN IF ~r.sc THEN [s |-> s2, raised |-> FALSE]
       ELSE IF r.npc_updates = "list" THEN [s |-> s5, raised |-> TRUE]
       ELSE [s |-> s6, raised |-> FALSE]

\* ------------------------------------------------- GameService.proceed_game
\* Python evaluates e.id for every Enemy e of a non-empty current_enemies
\* list; Enemy defines enemy_id and instance_id but no attribute id, so the
\* set comprehension raises AttributeError
EnemyIdsRaises(s) == s.current_enemies # <<>>

\* a prologue that counts the turn before the AI call is made
prologue_counting_turn(s) ==
    [s |-> [s EXCEPT !.turn_count = s.turn_count + 1],
     was_in_combat |-> s.in_combat,
     err |-> IF s.in_combat /\ EnemyIdsRaises(s) THEN "AttributeError" ELSE None]

\* the part of proceed_game before the AI call (session already looked up):
\* captures was_in_combat and previous_enemy_ids, changes nothing
proceed_game_prologue(s) ==
    [s |-> s,
     was_in_combat |-> s.in_combat,
     err |-> IF s.in_combat /\ EnemyIdsRaises(s) THEN "AttributeError" ELSE None]

\* the movement check on state_changes.current_location_id: the note added
\* to the narrative, None when the move is let through
GateNote(s, r) ==
    LET loc == r.cur_loc
    IN IF ~r.sc \/ loc = None \/ loc \notin Locations \/ ~HasRequirements(loc)
       THEN None
       ELSE IF ReqItem(loc) # None
            THEN IF ~InSeq(ReqItem(loc), s.character.inventory) THEN "denied_item"
                 ELSE IF ReqConsume(loc) THEN "consumed" ELSE None
            ELSE IF s.quests[ReqQuest(loc)[1]] # ReqQuest(loc)[2] THEN "denied_quest"
                 ELSE None

Denied(note) == note \in {"denied_item", "denied_quest"}

\* the npc_updates loop of proceed_game (list of {id, ...} objects) with
\* _check_npc_quest_triggers
NpcQuestTriggered(s, r) ==
    /\ r.sc /\ r.npc_updates = "list"
    /\ QuestTrigger(NpcUpdateId, NpcUpdateDisposition) # None
    /\ s.quests[QuestTrigger(NpcUpdateId, NpcUpdateDisposition)] = "inactive"

NpcLoop(s, r) ==
    IF r.sc /\ r.npc_updates = "list"
    THEN LET s1 == [s EXCEPT !.npc_states[NpcUpdateId] = NpcUpdateDisposition]
         IN IF NpcQuestTriggered(s, r)
            THEN [s1 EXCEPT !.quests[QuestTrigger(NpcUpdateId, NpcUpdateDisposition)] = "active"]
            ELSE s1
    ELSE s

\* _handle_location_events is called when state_changes still holds
\* current_location_id, and acts when that location has an on_enter event
\* that is not skipped as already triggered.  A session without the
\* triggered_events attribute gets the empty set.
EventFires(s, r) ==
    /\ r.sc /\ r.cur_loc # None /\ r.cur_loc \in Locations
    /\ OnEnter(r.cur_loc) # NoEvent
    /\ ~(OnEnter(r.cur_loc).once
         /\ OnEnter(r.cur_loc).event_id \in s.triggered_events)

\* the session after _handle_location_events: the event is recorded when it
\* has an event_id
handle_location_events(s, r) ==
    IF EventFires(s, r) /\ OnEnter(r.cur_loc).event_id # None
    THEN [s EXCEPT !.triggered_events = @ \cup {OnEnter(r.cur_loc).event_id}]
    ELSE s

\* the response after _handle_location_events: a trap lowers hp_change; an
\* encounter writes state_changes.new_enemies, a key no code reads
EventChanges(s, r) ==
    IF EventFires(s, r) /\ OnEnter(r.cur_loc).type = "trap"
       /\ OnEnter(r.cur_loc).damage > 0
    THEN [r EXCEPT !.hp_change = @ - OnEnter(r.cur_loc).damage]
    ELSE r

\* proceed_game from the AI reply to the publish of TURN_PROCESSED
ProcessReply(s, was_in_combat, user_input, r) ==
    LET note == GateNote(s, r)
        s0 == IF note = "consumed"
              THEN [s EXCEPT !.character = remove_item(s.character, ReqItem(r.cur_loc))]
              ELSE s
        r0 == IF Denied(note) THEN [r EXCEPT !.cur_loc = None] ELSE r
        fires == EventFires(s0, r0)
        s1 == handle_location_events(s0, r0)
        r1 == EventChanges(s0, r0)
        trig == NpcQuestTriggered(s1, r1)
        s2 == NpcLoop(s1, r1)
        notes == (IF note = None THEN <<>> ELSE <<note>>)
                 \o (IF fires THEN <<OnEnter(r0.cur_loc).narrative>> ELSE <<>>)
                 \o (IF trig THEN <<"quest_triggered">> ELSE <<>>)
        a == apply_ai_response(s2, user_input, r1, notes)
    IN [s |-> a.s,
        raised |-> a.raised \/ (was_in_combat /\ EnemyIdsRaises(a.s)),
        notes |-> notes,
        game_over |-> r.game_over]

\* the outcome of a whole proceed_game call run alone on session s
proceed_game(s, user_input, rname) ==
    IF proceed_game_prologue(s).err # None \/ rname = "fail"
    THEN proceed_game_prologue(s).s
    ELSE ProcessReply(proceed_game_prologue(s).s,
                      proceed_game_prologue(s).was_in_combat,
                      user_input, ReplyNamed(rname)).s

\* ---------------------------------- use_item, buy_item, equip_item, flee_combat
\* d20 outcomes of random.randint(1, 20) that the model draws from
Rolls == {1, 20}

RECURSIVE MaxEnemyDex(_, _)
MaxEnemyDex(enemies, acc) ==
    IF enemies = <<>> THEN acc
    ELSE MaxEnemyDex(Tail(enemies), Max(acc, EnemyDex(Head(enemies).enemy_id)))

FleeDC(s) == MaxEnemyDex(s.current_enemies, 10)
FleeSuccess(s, roll) == roll + get_modifier_DEX(s.character) >= FleeDC(s)

\* the text the handler passes to proceed_game as user_input
ActionText(kind) ==
    CASE kind = "use" -> "use_item"
      [] kind = "buy" -> "bought"
      [] kind = "equip" -> "equipped"
      [] kind = "flee" -> "flee_failed"
      [] OTHER -> "input"

\* The service call of a handler, from its entry (session already looked
\* up) to its first await or to its return.  s: the session afterwards;
\* err: the exception raised; entered: proceed_game was called; returned:
\* the call returned without an AI call (successful flee).
Entered(s) ==
    [s |-> proceed_game_prologue(s).s, pgs |-> s,
     err |-> proceed_game_prologue(s).err,
     was_in_combat |-> proceed_game_prologue(s).was_in_combat,
     entered |-> TRUE, returned |-> FALSE]

Rejected(s, err) ==
    [s |-> s, pgs |-> s, err |-> err, was_in_combat |-> FALSE,
     entered |-> FALSE, returned |-> FALSE]

use_item(s, item) ==
    IF ~InSeq(item, s.character.inventory) THEN Rejected(s, "GameError")
    ELSE Entered(IF Consumable(item)
                 THEN [s EXCEPT !.character = remove_item(s.character, item)]
                 ELSE s)

\* a buy_item that takes the gold before it compares it with the price
buy_item_charging_first(s, item) ==
    IF s.current_location_id # ShopLocation THEN Rejected(s, "GameError")
    ELSE IF item \notin ShopItems THEN Rejected(s, "GameError")
    ELSE IF s.character.gold < Price(item)
    THEN Rejected([s EXCEPT !.character.gold = @ - Price(item)], "GameError")
    ELSE Entered([s EXCEPT !.character =
                     add_item([s.character EXCEPT !.gold = @ - Price(item)], item)])

buy_item(s, item) ==
    IF s.current_location_id # ShopLocation THEN Rejected(s, "GameError")
    ELSE IF item \notin ShopItems THEN Rejected(s, "GameError")
    ELSE IF s.character.gold < Price(item) THEN Rejected(s, "GameError")
    ELSE Entered([s EXCEPT !.character =
                     add_item([s.character EXCEPT !.gold = @ - Price(item)], item)])

equip_item(s, item) ==
    IF ~InSeq(item, s.character.inventory) THEN Rejected(s, "GameError")
    ELSE IF EquipmentType(item) = None THEN Rejected(s, "GameError")
    ELSE Entered([s EXCEPT !.character = equip(s.character, item, EquipmentType(item))])

\* a flee_combat that leaves combat through the reward path of combat "end"
flee_combat_rewarding(s, roll) ==
    IF ~s.in_combat THEN Rejected(s, "GameError")
    ELSE IF FleeSuccess(s, roll)
    THEN [s |-> add_history(add_history(CombatEnd(s), "user", "flee", <<>>),
                            "assistant", "fled", <<>>),
          pgs |-> s, err |-> None, was_in_combat |-> FALSE,
          entered |-> FALSE, returned |-> TRUE]
    ELSE Entered(s)

flee_combat(s, roll) ==
    IF ~s.in_combat THEN Rejected(s, "GameError")
    ELSE IF FleeSuccess(s, roll)
    THEN [s |-> add_history(add_history(end_combat(s), "user", "flee", <<>>),
                            "assistant", "fled", <<>>),
          pgs |-> s, err |-> None, was_in_combat |-> FALSE,
          entered |-> FALSE, returned |-> TRUE]
    ELSE Entered(s)

ServiceCall(kind, item, roll, s) ==
    CASE kind = "use" -> use_item(s, item)
      [] kind = "buy" -> buy_item(s, item)
      [] kind = "equip" -> equip_item(s, item)
      [] kind = "flee" -> flee_combat(s, roll)
      [] OTHER -> Entered(s)

Items == {"potion", "sword"}
InteractionKinds == {"next", "use", "buy", "equip", "flee"}
\* the calls that are a bare proceed_game(user_id, text)
PlainKinds == {"message", "next"}

\* ------------------------------------------------------------------- state
VARIABLES
    heap,        \* the GameSession objects ever created, by object number
    by_user,     \* SessionManager._sessions_by_user: user -> object number, 0 absent
    by_thread,   \* SessionManager._sessions_by_thread: thread id -> object number
    locks,       \* SessionManager._locks: user -> lock object number, 0 absent
    holder,      \* asyncio.Lock._locked: the task holding each lock object
    waiters,     \* asyncio.Lock._waiters: the tasks waiting, in FIFO order
    nlocks,      \* lock objects created so far
    saved,       \* the character repository: user -> saved character
    events,      \* events published on the EventBus, counted by type
    task,        \* the handler invocation each task is running
    ops          \* handler invocations started so far

vars == <<heap, by_user, by_thread, locks, holder, waiters, nlocks, saved,
          events, task, ops>>

SessionIds == 1..MaxOps
LockIds == 1..MaxOps

\* the tasks are interchangeable: a new handler takes the first idle one
TaskOrder == <<"t1", "t2">>
FirstIdle(t) ==
    /\ task[t].pc = "idle"
    /\ \A i, j \in 1..Len(TaskOrder) :
           TaskOrder[j] = t /\ i < j => task[TaskOrder[i]].pc # "idle"

IdleTask ==
    [pc |-> "idle", kind |-> None, user |-> None, sid |-> 0, lock |-> 0,
     item |-> None, was_in_combat |-> FALSE, game_over |-> FALSE, err |-> None,
     snap |-> <<>>,
     \* argument and result of a direct call of a model method
     slot |-> None, arg |-> 0, ret |-> FALSE,
     \* history of the running call, kept for the properties below
     pgpre |-> <<>>, pgrep |-> None, pgfirst |-> FALSE, pgbase |-> 0,
     pgmut |-> FALSE, opmut |-> FALSE, published |-> FALSE, alone |-> FALSE]

\* task o runs nothing, or a bare proceed_game call that is not entered yet
NotEntered(o) ==
    \/ task[o].pc = "idle"
    \/ task[o].pc \in {"called", "wait_lock"} /\ task[o].kind \in PlainKinds

\* handler t starts as rec; the calls in progress are no longer alone
Begin(t, rec) ==
    [o \in Tasks |-> IF o = t THEN rec ELSE [task[o] EXCEPT !.alone = FALSE]]

Init ==
    /\ heap = <<>>
    /\ by_user = [u \in Users |-> 0]
    /\ by_thread = [th \in SessionIds |-> 0]
    /\ locks = [u \in Users |-> 0]
    /\ holder = [l \in LockIds |-> None]
    /\ waiters = [l \in LockIds |-> <<>>]
    /\ nlocks = 0
    /\ saved = [u \in Users |-> InitCharacter]
    /\ events = [started |-> 0, ended |-> 0, turn |-> 0]
    /\ task = [t \in Tasks |-> IdleTask]
    /\ ops = 0

\* a get_lock that hands every user the lock created last
LockOfShared(u) == Max(nlocks, 1)

\* SessionManager.get_lock: the defaultdict creates the lock on first use
LockOf(u) == IF locks[u] # 0 THEN locks[u] ELSE nlocks + 1
GetLock(u) ==
    /\ locks' = [locks EXCEPT ![u] = LockOf(u)]
    /\ nlocks' = IF locks[u] # 0 THEN nlocks ELSE nlocks + 1

\* a locked() that looks at the queue of waiters instead of the holder
LockedWhenQueued(l) == waiters[l] # <<>>

\* lock.locked()
Locked(l) == holder[l] # None
\* asyncio.Lock.acquire returns at once iff unlocked and nobody waits
Free(l) == holder[l] = None /\ waiters[l] = <<>>


\* -------------------------------------------------- SessionManager.end_session
\* an end_session that leaves the thread index as it is
EndSessionKeepingThread(u) ==
    IF by_user[u] = 0
    THEN UNCHANGED <<by_user, by_thread, locks>>
    ELSE /\ by_user' = [by_user EXCEPT ![u] = 0]
         /\ by_thread' = by_thread
         /\ locks' = [locks EXCEPT ![u] = 0]

\* pops the user's session, drops its thread index entry and the user's lock
EndSession(u) ==
    LET sid == by_user[u]
        th == heap[sid].thread_id
    IN IF sid = 0
       THEN UNCHANGED <<by_user, by_thread, locks>>
       ELSE /\ by_user' = [by_user EXCEPT ![u] = 0]
            /\ by_thread' = IF th # 0 /\ by_thread[th] # 0
                            THEN [by_thread EXCEPT ![th] = 0] ELSE by_thread
            /\ locks' = [locks EXCEPT ![u] = 0]

\* ------------------------------------------------------------ /start_game
StartGame(t, u) ==
    /\ FirstIdle(t)
    /\ ops < MaxOps
    /\ ops' = ops + 1
    /\ task' = Begin(t, [IdleTask EXCEPT !.pc = "sg_loading",
                                                   !.kind = "start", !.user = u])
    /\ UNCHANGED <<heap, by_user, by_thread, locks, holder, waiters, nlocks,
                   saved, events>>

\* GameService.start_game up to the await of generate_introduction
StartGameCreate(t) ==
    LET u == task[t].user
        sid == Len(heap) + 1
    IN /\ task[t].pc = "sg_loading"
       /\ IF by_user[u] # 0
          THEN /\ task' = [task EXCEPT ![t].pc = "failed", ![t].err = "GameError"]
               /\ UNCHANGED <<heap, by_user>>
          ELSE /\ heap' = Append(heap, [NewSession(u, saved[u]) EXCEPT
                                           !.current_location_id = StartLocation])
               /\ by_user' = [by_user EXCEPT ![u] = sid]
               /\ task' = [task EXCEPT ![t].pc = "sg_intro", ![t].sid = sid]
       /\ UNCHANGED <<by_thread, locks, holder, waiters, nlocks, saved, events, ops>>

\* generate_introduction returned: history entry, GAME_STARTED published
IntroReturn(t) ==
    /\ task[t].pc = "sg_intro"
    /\ heap' = [heap EXCEPT ![task[t].sid] = add_history(@, "assistant", "intro", <<>>)]
    /\ events' = [events EXCEPT !.started = @ + 1]
    /\ task' = [task EXCEPT ![t].pc = "sg_thread"]
    /\ UNCHANGED <<by_user, by_thread, locks, holder, waiters, nlocks, saved, ops>>

\* generate_introduction raised AIConnectionError
IntroFail(t) ==
    /\ task[t].pc = "sg_intro"
    /\ task' = [task EXCEPT ![t].pc = "failed", ![t].err = "AIConnectionError"]
    /\ UNCHANGED <<heap, by_user, by_thread, locks, holder, waiters, nlocks,
                   saved, events, ops>>

\* the thread exists: associate_thread_to_session(user, thread.id); the
\* thread of a start_game call carries the number of the session it created
Associate(t) ==
    LET u == task[t].user
        th == task[t].sid
        cur == by_user[u]
    IN /\ task[t].pc = "sg_thread"
       /\ IF cur = 0
          THEN UNCHANGED <<heap, by_thread>>
          ELSE /\ heap' = [heap EXCEPT ![cur].thread_id = th]
               /\ by_thread' = [by_thread EXCEPT ![th] = cur]
       /\ task' = [task EXCEPT ![t].pc = "done"]
       /\ UNCHANGED <<by_user, locks, holder, waiters, nlocks, saved, events, ops>>

\* ------------------------------------------- on_message / _process_game_turn
\* A message in a game thread: session lookup by thread id, get_lock, the
\* locked() test and, when the lock is free, its acquisition
Message(t, th) ==
    LET sid == by_thread[th]
        u == heap[sid].user_id
        l == LockOf(u)
    IN /\ FirstIdle(t)
       /\ ops < MaxOps
       /\ sid # 0
       /\ GetLock(u)
       /\ ops' = ops + 1
       /\ IF Locked(l)
          THEN /\ task' = Begin(t, [IdleTask EXCEPT
                     !.pc = "msg_busy", !.kind = "message", !.user = u])
               /\ UNCHANGED <<holder, waiters>>
          ELSE IF Free(l)
          THEN /\ task' = Begin(t, [IdleTask EXCEPT
                     !.pc = "called", !.kind = "message", !.user = u, !.lock = l])
               /\ holder' = [holder EXCEPT ![l] = t]
               /\ UNCHANGED waiters
          ELSE /\ task' = Begin(t, [IdleTask EXCEPT
                     !.pc = "wait_lock", !.kind = "message", !.user = u, !.lock = l])
               /\ waiters' = [waiters EXCEPT ![l] = Append(@, t)]
               /\ UNCHANGED holder
       /\ UNCHANGED <<heap, by_user, by_thread, saved, events>>

\* a waiter is woken in FIFO order once the lock object is released
AcquireWake(t) ==
    LET l == task[t].lock
    IN /\ task[t].pc = "wait_lock"
       /\ holder[l] = None
       /\ waiters[l] # <<>> /\ Head(waiters[l]) = t
       /\ holder' = [holder EXCEPT ![l] = t]
       /\ waiters' = [waiters EXCEPT ![l] = Tail(@)]
       /\ task' = [task EXCEPT ![t].pc =
                      CASE task[t].kind = "end" -> "eg_defer"
                        [] task[t].kind = "levelup" -> "lu_locked"
                        [] task[t].kind = "add_xp" -> "ax_locked"
                        [] OTHER -> "called"]
       /\ UNCHANGED <<heap, by_user, by_thread, locks, nlocks, saved, events, ops>>

\* ------------------------- slash commands and view callbacks (no lock taken)
\* /next, /use, /equip, the combat and suggestion buttons, the shop select:
\* the handler answers the interaction (an await) before it calls the service
Interaction(t, u, kind, item) ==
    /\ FirstIdle(t)
    /\ ops < MaxOps
    /\ by_user[u] # 0
    /\ kind \in InteractionKinds
    /\ item = None <=> kind \in {"next", "flee"}
    /\ ops' = ops + 1
    /\ task' = Begin(t, [IdleTask EXCEPT
                   !.pc = "called", !.kind = kind, !.user = u, !.item = item])
    /\ UNCHANGED <<heap, by_user, by_thread, locks, holder, waiters, nlocks,
                   saved, events>>

\* the service call (proceed_game, use_item, buy_item, equip_item or
\* flee_combat) from its entry to the await of the AI call
Call(t, roll) ==
    LET u == task[t].user
        sid == by_user[u]
        c == ServiceCall(task[t].kind, task[t].item, roll, heap[sid])
        plain == task[t].kind \in PlainKinds
    IN /\ task[t].pc = "called"
       /\ IF sid = 0
          THEN /\ task' = [task EXCEPT ![t].pc = "failed",
                                       ![t].err = "SessionNotFoundError"]
               /\ UNCHANGED heap
          ELSE /\ heap' = [heap EXCEPT ![sid] = c.s]
               /\ task' = [task EXCEPT
                     ![t].sid = sid,
                     ![t].was_in_combat = c.was_in_combat,
                     \* the d20 of a flee attempt, kept for the properties
                     ![t].arg = IF task[t].kind = "flee" /\ heap[sid].in_combat
                                THEN roll ELSE 0,
                     ![t].err = c.err,
                     ![t].pc = IF c.err # None THEN "failed"
                               ELSE IF c.returned THEN "respond" ELSE "ai_wait",
                     ![t].pgpre = IF c.entered /\ plain THEN <<c.pgs>> ELSE <<>>,
                     ![t].pgfirst = \A o \in Tasks \ {t} : NotEntered(o),
                     ![t].pgbase = ops + Cardinality({o \in Tasks \ {t} :
                                                         task[o].pc = "idle"}),
                     ![t].pgrep = IF c.entered /\ c.err = None THEN "pending"
                                  ELSE IF c.entered THEN "fail" ELSE None,
                     ![t].pgmut = c.entered /\ c.s # c.pgs,
                     ![t].opmut = c.s # heap[sid],
                     ![t].alone = \A o \in Tasks \ {t} : task[o].pc = "idle"]
       /\ UNCHANGED <<by_user, by_thread, locks, holder, waiters, nlocks, saved,
                      events, ops>>

\* the AI backend answered: the rest of proceed_game up to the publish of
\* TURN_PROCESSED
AIReturn(t, r) ==
    LET sid == task[t].sid
        p == ProcessReply(heap[sid], task[t].was_in_combat,
                          ActionText(task[t].kind), r)
    IN /\ task[t].pc = "ai_wait"
       /\ r \in Replies
       /\ heap' = [heap EXCEPT ![sid] = p.s]
       /\ events' = IF p.raised THEN events ELSE [events EXCEPT !.turn = @ + 1]
       /\ task' = [task EXCEPT
             ![t].pc = IF p.raised THEN "failed" ELSE "respond",
             ![t].err = IF p.raised THEN "AttributeError" ELSE None,
             ![t].game_over = p.game_over,
             ![t].pgrep = r.name,
             ![t].pgmut = task[t].pgmut \/ p.s # heap[sid],
             ![t].opmut = task[t].opmut \/ p.s # heap[sid],
             ![t].published = ~p.raised]
       /\ UNCHANGED <<by_user, by_thread, locks, holder, waiters, nlocks, saved, ops>>

\* generate_response raised AIConnectionError (transport failure, or an
\* undecodable reply after the retries)
AIFail(t) ==
    /\ task[t].pc = "ai_wait"
    /\ task' = [task EXCEPT ![t].pc = "failed", ![t].err = "AIConnectionError",
                            ![t].pgrep = "fail"]
    /\ UNCHANGED <<heap, by_user, by_thread, locks, holder, waiters, nlocks,
                   saved, events, ops>>

\* ----------------------------------------------------- GameService.end_game
\* end_game up to the await of save_character: to_dict() copies the scalar
\* fields at once, the lists and dicts of the document are the character's
\* own objects and are serialised when the file is written
EndGameBegin(t, next_pc) ==
    LET u == task[t].user
        sid == by_user[u]
    IN IF sid = 0
       THEN task' = [task EXCEPT ![t].pc = next_pc, ![t].err = "SessionNotFoundError"]
       ELSE task' = [task EXCEPT ![t].pc = "eg_saving", ![t].sid = sid,
                                 ![t].snap = <<heap[sid].character>>]

SavedDocument(snapshot, c) ==
    [snapshot EXCEPT !.inventory = c.inventory, !.equipment = c.equipment,
                     !.base_stats = c.base_stats]

\* save_character returned: end_session, then GAME_ENDED is published
EndGameSaved(t) ==
    LET u == task[t].user
    IN /\ task[t].pc = "eg_saving"
       /\ saved' = [saved EXCEPT ![u] =
                       SavedDocument(task[t].snap[1], heap[task[t].sid].character)]
       /\ EndSession(u)
       /\ events' = [events EXCEPT !.ended = @ + 1]
       /\ task' = [task EXCEPT ![t].pc = "done"]
       /\ UNCHANGED <<heap, holder, waiters, nlocks, ops>>

\* --------------------------------------- GameCommandsCog._handle_response
\* the response was sent; a response with game_over ends the game
Respond(t) ==
    /\ task[t].pc = "respond"
    /\ task[t].game_over
    /\ EndGameBegin(t, "done")
    /\ UNCHANGED <<heap, by_user, by_thread, locks, holder, waiters, nlocks,
                   saved, events, ops>>

\* ----------------------------------------------------------------- /end_game
EndGameCmd(t, u) ==
    LET l == LockOf(u)
    IN /\ FirstIdle(t)
       /\ ops < MaxOps
       /\ GetLock(u)
       /\ ops' = ops + 1
       /\ IF Free(l)
          THEN /\ task' = Begin(t, [IdleTask EXCEPT
                     !.pc = "eg_defer", !.kind = "end", !.user = u, !.lock = l])
               /\ holder' = [holder EXCEPT ![l] = t]
               /\ UNCHANGED waiters
          ELSE /\ task' = Begin(t, [IdleTask EXCEPT
                     !.pc = "wait_lock", !.kind = "end", !.user = u, !.lock = l])
               /\ waiters' = [waiters EXCEPT ![l] = Append(@, t)]
               /\ UNCHANGED holder
       /\ UNCHANGED <<heap, by_user, by_thread, saved, events>>

\* save_character raised: the exception leaves end_game before end_session
EndGameSaveFails(t) ==
    /\ task[t].pc = "eg_saving"
    /\ task' = [task EXCEPT ![t].pc = "done", ![t].err = "SaveError"]
    /\ UNCHANGED <<heap, by_user, by_thread, locks, holder, waiters, nlocks,
                   saved, events, ops>>

\* after the defer: no session -> message and return, else end_game
EndGameCheck(t) ==
    /\ task[t].pc = "eg_defer"
    /\ EndGameBegin(t, "done")
    /\ UNCHANGED <<heap, by_user, by_thread, locks, holder, waiters, nlocks,
                   saved, events, ops>>

\* ---------------------------------------------- StatIncreaseView.on_select
\* the level-up select spends a stat point on the session's character
SpendStatPoint(t, u, stat) ==
    LET sid == by_user[u]
    IN /\ FirstIdle(t)
       /\ ops < MaxOps
       /\ sid # 0
       /\ heap[sid].character.stat_points > 0
       /\ heap' = [heap EXCEPT ![sid].character = use_stat_point(@, stat)]
       /\ ops' = ops + 1
       /\ task' = Begin(t, [IdleTask EXCEPT
                      !.pc = "done", !.kind = "spend", !.user = u, !.sid = sid,
                      !.opmut = TRUE])
       /\ UNCHANGED <<by_user, by_thread, locks, holder, waiters, nlocks, saved, events>>

\* ------------------------------------------------- /levelup and /add_xp
\* "async with lock" of a slash command: enter at once or queue up
LockedCommand(t, u, kind, locked_pc) ==
    LET l == LockOf(u)
    IN /\ GetLock(u)
       /\ ops' = ops + 1
       /\ IF Free(l)
          THEN /\ task' = Begin(t, [IdleTask EXCEPT
                     !.pc = locked_pc, !.kind = kind, !.user = u, !.lock = l])
               /\ holder' = [holder EXCEPT ![l] = t]
               /\ UNCHANGED waiters
          ELSE /\ task' = Begin(t, [IdleTask EXCEPT
                     !.pc = "wait_lock", !.kind = kind, !.user = u, !.lock = l])
               /\ waiters' = [waiters EXCEPT ![l] = Append(@, t)]
               /\ UNCHANGED holder
       /\ UNCHANGED <<heap, by_user, by_thread, saved, events>>

LevelUpCmd(t, u) ==
    /\ FirstIdle(t)
    /\ ops < MaxOps
    /\ LockedCommand(t, u, "levelup", "lu_locked")

\* /levelup under the lock: no session or no points -> a message, else the
\* level-up view is sent; the character is not changed here
LevelUpBody(t) ==
    /\ task[t].pc = "lu_locked"
    /\ task' = [task EXCEPT ![t].pc = "done",
                            ![t].err = IF by_user[task[t].user] = 0
                                       THEN "SessionRequired" ELSE None]
    /\ UNCHANGED <<heap, by_user, by_thread, locks, holder, waiters, nlocks,
                   saved, events, ops>>

\* the amount the owner passes to /add_xp
CommandXp == {100}

AddXpCmd(t, u) ==
    /\ FirstIdle(t)
    /\ ops < MaxOps
    /\ LockedCommand(t, u, "add_xp", "ax_locked")

\* /add_xp under the lock, up to the await of save_character
AddXpBody(t, amount) ==
    LET sid == by_user[task[t].user]
    IN /\ task[t].pc = "ax_locked"
       /\ IF sid = 0
          THEN /\ task' = [task EXCEPT ![t].pc = "done",
                                       ![t].err = "SessionRequired"]
               /\ UNCHANGED heap
          ELSE /\ heap' = [heap EXCEPT ![sid].character = add_xp(@, amount)]
               /\ task' = [task EXCEPT
                     ![t].pc = "ax_saving", ![t].sid = sid, ![t].arg = amount,
                     ![t].snap = <<add_xp(heap[sid].character, amount)>>]
       /\ UNCHANGED <<by_user, by_thread, locks, holder, waiters, nlocks,
                      saved, events, ops>>

\* save_character returned
AddXpSaved(t) ==
    /\ task[t].pc = "ax_saving"
    /\ saved' = [saved EXCEPT ![task[t].user] =
                    SavedDocument(task[t].snap[1], heap[task[t].sid].character)]
    /\ task' = [task EXCEPT ![t].pc = "done"]
    /\ UNCHANGED <<heap, by_user, by_thread, locks, holder, waiters, nlocks,
                   events, ops>>

\* save_character raised: the exception leaves the "async with" block
AddXpSaveFails(t) ==
    /\ task[t].pc = "ax_saving"
    /\ task' = [task EXCEPT ![t].pc = "failed", ![t].err = "SaveError"]
    /\ UNCHANGED <<heap, by_user, by_thread, locks, holder, waiters, nlocks,
                   saved, events, ops>>

\* ------------------------------------------------------------ handler exit
\* a handler that returns without leaving its "async with lock" block
FinishKeepingLock(t) ==
    /\ \/ task[t].pc \in {"done", "failed", "msg_busy"}
       \/ task[t].pc = "respond" /\ ~task[t].game_over
    /\ task' = [task EXCEPT ![t] = IdleTask]
    /\ UNCHANGED <<heap, by_user, by_thread, locks, holder, waiters, nlocks,
                   saved, events, ops>>

\* the handler reports (error message, reaction, follow-up) and returns;
\* leaving "async with lock" releases the lock object the task acquired
Finish(t) ==
    /\ \/ task[t].pc \in {"done", "failed", "msg_busy"}
       \/ task[t].pc = "respond" /\ ~task[t].game_over
    /\ holder' = [l \in LockIds |-> IF holder[l] = t THEN None ELSE holder[l]]
    /\ task' = [task EXCEPT ![t] = IdleTask]
    /\ UNCHANGED <<heap, by_user, by_thread, locks, waiters, nlocks, saved, events, ops>>

Next ==
    \E t \in Tasks :
        \/ \E u \in Players : StartGame(t, u)
        \/ StartGameCreate(t)
        \/ IntroReturn(t)
        \/ IntroFail(t)
        \/ Associate(t)
        \/ \E th \in SessionIds : Message(t, th)
        \/ AcquireWake(t)
        \/ \E u \in Players, kind \in InteractionKinds, item \in Items \cup {None} :
               Interaction(t, u, kind, item)
        \/ \E roll \in Rolls : Call(t, roll)
        \/ \E r \in Replies : AIReturn(t, r)
        \/ AIFail(t)
        \/ Respond(t)
        \/ \E u \in Players : EndGameCmd(t, u)
        \/ EndGameCheck(t)
        \/ EndGameSaved(t)
        \/ \E u \in Players, stat \in {"STR"} : SpendStatPoint(t, u, stat)
        \/ Finish(t)

Spec == Init /\ [][Next]_vars

\* the replies the turn-handler specification draws from
TurnReplies ==
    {r \in Replies : r.name \in {"plain", "gain", "hurt", "start1", "end",
                                  "to_vault", "befriend", "die"}}

\* The turn handlers alone: game start, thread message (under the user's
\* lock), /next (without it), the AI answering or failing, /end_game and
\* the ending of a game whose response carries game_over.
NextTurns ==
    \E t \in Tasks :
        \/ \E u \in Players : StartGame(t, u)
        \/ StartGameCreate(t)
        \/ IntroReturn(t)
        \/ IntroFail(t)
        \/ Associate(t)
        \/ \E th \in SessionIds : Message(t, th)
        \/ AcquireWake(t)
        \/ \E u \in Players : Interaction(t, u, "next", None)
        \/ \E roll \in Rolls : Call(t, roll)
        \/ \E r \in TurnReplies : AIReturn(t, r)
        \/ AIFail(t)
        \/ Respond(t)
        \/ \E u \in Players : EndGameCmd(t, u)
        \/ EndGameCheck(t)
        \/ EndGameSaved(t)
        \/ Finish(t)

SpecTurns == Init /\ [][NextTurns]_vars

\* The combat handlers alone: game start, /next without the lock, the flee
\* button, the AI answering or failing, and the ending of a game whose
\* response carries game_over.
\* the replies that start, continue or end a fight, or leave it alone
CombatReplies ==
    {r \in Replies : r.name \in {"plain", "gain", "hurt", "start1", "start2",
                                  "end", "hit", "ambush", "die"}}

NextCombat ==
    \E t \in Tasks :
        \/ \E u \in Players : StartGame(t, u)
        \/ StartGameCreate(t)
        \/ IntroReturn(t)
        \/ IntroFail(t)
        \/ Associate(t)
        \/ \E u \in Players, kind \in {"next", "flee"} : Interaction(t, u, kind, None)
        \/ \E roll \in Rolls : Call(t, roll)
        \/ \E r \in CombatReplies : AIReturn(t, r)
        \/ AIFail(t)
        \/ Respond(t)
        \/ Finish(t)

SpecCombat == Init /\ [][NextCombat]_vars

\* The item and flee handlers alone, for players whose saved character is
\* rich or poor: game start, the item buttons and the flee button, the AI
\* answering or failing, and the ending of a game whose response carries
\* game_over.
ItemReplies == {r \in Replies : r.name \in {"plain", "start1", "die"}}
PoorGold == 5

InitItems ==
    /\ heap = <<>>
    /\ by_user = [u \in Users |-> 0]
    /\ by_thread = [th \in SessionIds |-> 0]
    /\ locks = [u \in Users |-> 0]
    /\ holder = [l \in LockIds |-> None]
    /\ waiters = [l \in LockIds |-> <<>>]
    /\ nlocks = 0
    /\ saved \in {[u \in Users |-> [InitCharacter EXCEPT !.gold = gold]] :
                     gold \in {InitCharacter.gold, PoorGold}}
    /\ events = [started |-> 0, ended |-> 0, turn |-> 0]
    /\ task = [t \in Tasks |-> IdleTask]
    /\ ops = 0

NextItems ==
    \E t \in Tasks :
        \/ \E u \in Players : StartGame(t, u)
        \/ StartGameCreate(t)
        \/ IntroReturn(t)
        \/ IntroFail(t)
        \/ Associate(t)
        \/ \E u \in Players, kind \in InteractionKinds \ {"next"},
              item \in Items \cup {None} : Interaction(t, u, kind, item)
        \/ \E roll \in Rolls : Call(t, roll)
        \/ \E r \in ItemReplies : AIReturn(t, r)
        \/ AIFail(t)
        \/ Respond(t)
        \/ EndGameSaved(t)
        \/ Finish(t)

SpecItems == InitItems /\ [][NextItems]_vars

\* Two players, each with a started game in a thread of its own (the state
\* after two /start_game calls have run to their end): thread messages and
\* /end_game of both users.
StartedSession(u, th) ==
    [add_history([NewSession(u, InitCharacter) EXCEPT
                      !.current_location_id = StartLocation],
                 "assistant", "intro", <<>>)
        EXCEPT !.thread_id = th]

TwoUserReplies == {r \in Replies : r.name \in {"plain", "die"}}

InitTwoGames ==
    /\ heap = <<StartedSession("u1", 1), StartedSession("u2", 2)>>
    /\ by_user = [u \in Users |-> IF u = "u1" THEN 1 ELSE 2]
    /\ by_thread = [th \in SessionIds |-> IF th <= 2 THEN th ELSE 0]
    /\ locks = [u \in Users |-> 0]
    /\ holder = [l \in LockIds |-> None]
    /\ waiters = [l \in LockIds |-> <<>>]
    /\ nlocks = 0
    /\ saved = [u \in Users |-> InitCharacter]
    /\ events = [started |-> 2, ended |-> 0, turn |-> 0]
    /\ task = [t \in Tasks |-> IdleTask]
    /\ ops = 0

NextTwoUsers ==
    \E t \in Tasks :
        \/ \E th \in SessionIds : Message(t, th)
        \/ AcquireWake(t)
        \/ \E roll \in Rolls : Call(t, roll)
        \/ \E r \in TwoUserReplies : AIReturn(t, r)
        \/ AIFail(t)
        \/ Respond(t)
        \/ \E u \in Users : EndGameCmd(t, u)
        \/ EndGameCheck(t)
        \/ EndGameSaved(t)
        \/ Finish(t)

SpecTwoUsers == InitTwoGames /\ [][NextTwoUsers]_vars

\* ------------------------------------------------ direct calls of the models
\* Character methods called one after another on one character, which is
\* kept as the character of session object 1; no handler runs.  task.t1
\* records the last call: its name, arguments, result, and the object
\* before the call.
CallInit(characters) ==
    /\ heap \in {<<NewSession("u1", c)>> : c \in characters}
    /\ by_user = [u \in Users |-> 0]
    /\ by_thread = [th \in SessionIds |-> 0]
    /\ locks = [u \in Users |-> 0]
    /\ holder = [l \in LockIds |-> None]
    /\ waiters = [l \in LockIds |-> <<>>]
    /\ nlocks = 0
    /\ saved = [u \in Users |-> InitCharacter]
    /\ events = [started |-> 0, ended |-> 0, turn |-> 0]
    /\ task = [t \in Tasks |-> IdleTask]
    /\ ops = 0

LastCall == task["t1"]
Subject == heap[1].character
SubjectBefore == LastCall.snap[1].character

MethodCall(kind, item, slot, arg, c, ret) ==
    /\ ops' = ops + 1
    /\ heap' = [heap EXCEPT ![1].character = c]
    /\ task' = [task EXCEPT !["t1"] =
                   [IdleTask EXCEPT !.kind = kind, !.item = item, !.slot = slot,
                                    !.arg = arg, !.ret = ret, !.snap = <<heap[1]>>]]
    /\ UNCHANGED <<by_user, by_thread, locks, holder, waiters, nlocks, saved, events>>

\* take_damage, heal_hp, spend_mp and recover_mp with amounts of either sign
MaxAmount == 12
Amounts == {-MaxAmount, -1, 0, 1, MaxAmount}

InitVitals ==
    CallInit({[InitCharacter EXCEPT !.hp = hp, !.mp = mp] :
                 hp \in {0, InitCharacter.max_hp}, mp \in {0, InitCharacter.max_mp}})

TakeDamage(amount) ==
    /\ ops < MaxOps
    /\ MethodCall("take_damage", None, None, amount,
                  take_damage(Subject, amount), FALSE)
HealHp(amount) ==
    /\ ops < MaxOps
    /\ MethodCall("heal_hp", None, None, amount, heal_hp(Subject, amount), FALSE)
SpendMp(amount) ==
    /\ ops < MaxOps
    /\ MethodCall("spend_mp", None, None, amount, spend_mp(Subject, amount),
                  spend_mp_returns(Subject, amount))
RecoverMp(amount) ==
    /\ ops < MaxOps
    /\ MethodCall("recover_mp", None, None, amount,
                  recover_mp(Subject, amount), FALSE)

NextVitals ==
    \E amount \in Amounts :
        \/ TakeDamage(amount)
        \/ HealHp(amount)
        \/ SpendMp(amount)
        \/ RecoverMp(amount)

SpecVitals == InitVitals /\ [][NextVitals]_vars

\* equip, unequip, add_item and remove_item with any item name and slot
Slots == {"weapon", "armor"}

Equipped(c) == {c.equipment[slot] : slot \in Slots} \ {None}
Held(c) == {c.inventory[i] : i \in 1..Len(c.inventory)}

\* the characters the calls start from: inventory and equipment disjoint
InventoryStarts ==
    {c \in {[InitCharacter EXCEPT !.inventory = inventory,
                                  !.equipment.weapon = weapon] :
                inventory \in {<<>>, <<"potion">>, <<"potion", "sword">>},
                weapon \in {None, "sword"}} :
        Held(c) \cap Equipped(c) = {}}

InitInventory == CallInit(InventoryStarts)

Equip(item, slot) ==
    /\ ops < MaxOps
    /\ MethodCall("equip", item, slot, 0, equip(Subject, item, slot), FALSE)
Unequip(slot) ==
    /\ ops < MaxOps
    /\ MethodCall("unequip", None, slot, 0, unequip(Subject, slot),
                  unequip_returns(Subject, slot))
AddItem(item) ==
    /\ ops < MaxOps
    /\ MethodCall("add_item", item, None, 0, add_item(Subject, item), FALSE)
RemoveItem(item) ==
    /\ ops < MaxOps
    /\ MethodCall("remove_item", item, None, 0, remove_item(Subject, item),
                  InSeq(item, Subject.inventory))

NextInventory ==
    \/ \E item \in Items, slot \in Slots : Equip(item, slot)
    \/ \E slot \in Slots : Unequip(slot)
    \/ \E item \in Items : AddItem(item)
    \/ \E item \in Items : RemoveItem(item)

SpecInventory == InitInventory /\ [][NextInventory]_vars

\* one started game whose player sends messages, presses "next" and runs
\* /end_game, with a character store that can fail
InitOneGame ==
    /\ heap = <<StartedSession("u1", 1)>>
    /\ by_user = [u \in Users |-> IF u = "u1" THEN 1 ELSE 0]
    /\ by_thread = [th \in SessionIds |-> IF th = 1 THEN 1 ELSE 0]
    /\ locks = [u \in Users |-> 0]
    /\ holder = [l \in LockIds |-> None]
    /\ waiters = [l \in LockIds |-> <<>>]
    /\ nlocks = 0
    /\ saved = [u \in Users |-> InitCharacter]
    /\ events = [started |-> 1, ended |-> 0, turn |-> 0]
    /\ task = [t \in Tasks |-> IdleTask]
    /\ ops = 0

NextEndGame ==
    \E t \in Tasks :
        \/ \E th \in SessionIds : Message(t, th)
        \/ AcquireWake(t)
        \/ \E u \in Players : Interaction(t, u, "next", None)
        \/ \E roll \in Rolls : Call(t, roll)
        \/ \E r \in TwoUserReplies : AIReturn(t, r)
        \/ AIFail(t)
        \/ Respond(t)
        \/ \E u \in Players : EndGameCmd(t, u)
        \/ EndGameCheck(t)
        \/ EndGameSaved(t)
        \/ EndGameSaveFails(t)
        \/ Finish(t)

SpecEndGame == InitOneGame /\ [][NextEndGame]_vars

\* the handlers that take the user's lock, on one started game: thread
\* messages, /end_game, /levelup and /add_xp
Arrives(t) ==
    \/ \E th \in SessionIds : Message(t, th)
    \/ \E u \in Players : EndGameCmd(t, u)
    \/ \E u \in Players : LevelUpCmd(t, u)
    \/ \E u \in Players : AddXpCmd(t, u)

\* what a started handler does next: every awaited AI or I/O call returns
\* or raises, and a woken waiter takes the lock
Proceeds(t) ==
    \/ AcquireWake(t)
    \/ \E roll \in Rolls : Call(t, roll)
    \/ \E r \in TwoUserReplies : AIReturn(t, r)
    \/ AIFail(t)
    \/ Respond(t)
    \/ EndGameCheck(t)
    \/ EndGameSaved(t)
    \/ EndGameSaveFails(t)
    \/ LevelUpBody(t)
    \/ \E amount \in CommandXp : AddXpBody(t, amount)
    \/ AddXpSaved(t)
    \/ AddXpSaveFails(t)
    \/ Finish(t)

NextLocks == \E t \in Tasks : Arrives(t) \/ Proceeds(t)

SpecLocks ==
    InitOneGame /\ [][NextLocks]_vars /\ \A t \in Tasks : WF_vars(Proceeds(t))

\* add_xp, use_stat_point and use_skill_points on a character whose pools
\* start empty or hold what one level-up grants
StatNames == {"STR", "dex", "LUCK"}
SkillNames == {"sword", "stealth"}
PointRequests == {-1, 0, 1, 5, 6}
PointXpAmounts == {-50, 50, 100, 300}

InitPoints ==
    CallInit({[InitCharacter EXCEPT !.stat_points = stat_points,
                                    !.skill_points = skill_points] :
                 stat_points \in {0, 1}, skill_points \in {0, 5}})

GainXp(amount) ==
    /\ ops < MaxOps
    /\ MethodCall("add_xp", None, None, amount, add_xp(Subject, amount),
                  add_xp_returns(Subject, amount))
UseStatPoint(stat_name) ==
    /\ ops < MaxOps
    /\ MethodCall("use_stat_point", stat_name, None, 1,
                  use_stat_point(Subject, stat_name),
                  use_stat_point_returns(Subject, stat_name))
UseSkillPoints(skill_name, points_to_use) ==
    /\ ops < MaxOps
    /\ MethodCall("use_skill_points", skill_name, None, points_to_use,
                  use_skill_points(Subject, skill_name, points_to_use),
                  use_skill_points_returns(Subject, skill_name, points_to_use))

NextPoints ==
    \/ \E amount \in PointXpAmounts : GainXp(amount)
    \/ \E stat_name \in StatNames : UseStatPoint(stat_name)
    \/ \E skill_name \in SkillNames : \E points_to_use \in PointRequests :
          UseSkillPoints(skill_name, points_to_use)

SpecPoints == InitPoints /\ [][NextPoints]_vars

\* start_quest, complete_quest and quest_updates bundles on quest lists
\* that start disjoint and free of duplicates
QuestIds == {"q1", "q2"}
QuestStatuses == {"active", "completed", "failed"}

NoDuplicates(seq) == \A i, j \in 1..Len(seq) : i # j => seq[i] # seq[j]
Disjoint(seq1, seq2) == \A i \in 1..Len(seq1) : ~InSeq(seq1[i], seq2)

\* a quest_updates dict: every key once, in any order
QuestUpdateBundles ==
    {<<>>}
    \cup {<<<<q, st>>>> : q \in QuestIds, st \in QuestStatuses}
    \cup {b \in {<<<<qa, st1>>, <<qb, st2>>>> :
                     qa \in QuestIds, qb \in QuestIds,
                     st1 \in QuestStatuses, st2 \in QuestStatuses} :
             b[1][1] # b[2][1]}

QuestStarts ==
    {c \in {[InitCharacter EXCEPT !.active_quests = active,
                                  !.completed_quests = completed] :
                active \in {<<>>, <<"q1">>, <<"q2", "q1">>},
                completed \in {<<>>, <<"q2">>}} :
        Disjoint(c.active_quests, c.completed_quests)}

InitQuests == CallInit(QuestStarts)

StartQuest(quest_id) ==
    /\ ops < MaxOps
    /\ MethodCall("start_quest", quest_id, None, 0,
                  start_quest(Subject, quest_id), FALSE)
CompleteQuest(quest_id) ==
    /\ ops < MaxOps
    /\ MethodCall("complete_quest", quest_id, None, 0,
                  complete_quest(Subject, quest_id), FALSE)
QuestUpdates(updates) ==
    /\ ops < MaxOps
    /\ MethodCall("quest_updates", None, None, 0,
                  apply_quest_updates(Subject, updates), FALSE)

NextQuests ==
    \/ \E quest_id \in QuestIds : StartQuest(quest_id)
    \/ \E quest_id \in QuestIds : CompleteQuest(quest_id)
    \/ \E updates \in QuestUpdateBundles : QuestUpdates(updates)

SpecQuests == InitQuests /\ [][NextQuests]_vars

\* add_history on a session that has already had up to HistoryLimit calls;
\* task.t1.snap keeps every entry ever added, in the order of the calls
MaxAdds == 3
Roles == {"user", "assistant"}
Contents == <<"look", "go", "talk">>

RECURSIVE EarlierAdds(_)
EarlierAdds(k) ==
    IF k = 0 THEN <<>>
    ELSE Append(EarlierAdds(k - 1),
                Entry(IF k % 2 = 1 THEN "user" ELSE "assistant",
                      Contents[(k % 3) + 1], <<>>))

RECURSIVE AddAll(_, _)
AddAll(s, entries) ==
    IF entries = <<>> THEN s
    ELSE AddAll(add_history(s, Head(entries).role, Head(entries).content, <<>>),
                Tail(entries))

InitHistory ==
    /\ \E k \in 0..HistoryLimit :
          /\ heap = <<AddAll(NewSession("u1", InitCharacter), EarlierAdds(k))>>
          /\ task = [t \in Tasks |->
                       IF t = "t1" THEN [IdleTask EXCEPT !.snap = EarlierAdds(k)]
                       ELSE IdleTask]
    /\ by_user = [u \in Users |-> 0]
    /\ by_thread = [th \in SessionIds |-> 0]
    /\ locks = [u \in Users |-> 0]
    /\ holder = [l \in LockIds |-> None]
    /\ waiters = [l \in LockIds |-> <<>>]
    /\ nlocks = 0
    /\ saved = [u \in Users |-> InitCharacter]
    /\ events = [started |-> 0, ended |-> 0, turn |-> 0]
    /\ ops = 0

AddHistory(role, content) ==
    /\ ops < MaxAdds
    /\ ops' = ops + 1
    /\ heap' = [heap EXCEPT ![1] = add_history(@, role, content, <<>>)]
    /\ task' = [task EXCEPT !["t1"].kind = "add_history",
                            !["t1"].snap = Append(@, Entry(role, content, <<>>))]
    /\ UNCHANGED <<by_user, by_thread, locks, holder, waiters, nlocks, saved, events>>

NextHistory ==
    \E role \in Roles : \E i \in 1..Len(Contents) : AddHistory(role, Contents[i])

SpecHistory == InitHistory /\ [][NextHistory]_vars

\* add_xp on characters of level 1..MaxLevel, by whole and half hundreds
MaxLevel == 3
XpAmounts == {50} \cup {k * 100 : k \in 0..(2 * MaxLevel + 1)}

InitXp ==
    CallInit({[InitCharacter EXCEPT !.level = level, !.xp = xp] :
                 level \in 1..MaxLevel, xp \in {0, 50}})

AddXp(amount) ==
    /\ ops < MaxOps
    /\ MethodCall("add_xp", None, None, amount, add_xp(Subject, amount),
                  add_xp_returns(Subject, amount))

NextXp == \E amount \in XpAmounts : AddXp(amount)

SpecXp == InitXp /\ [][NextXp]_vars

\* SessionManager methods called one after another on an empty manager;
\* task.t1 records the last call: its name, its user, the session returned
\* (sid, 0 for None) and the user's lock entry before the call (lock).
MaxCalls == 4

ManagerCall(kind, u, th, returned) ==
    /\ ops' = ops + 1
    /\ task' = [task EXCEPT !["t1"] =
                   [IdleTask EXCEPT !.kind = kind, !.user = u, !.arg = th,
                                    !.sid = returned, !.lock = locks[u]]]
    /\ UNCHANGED <<holder, waiters, saved, events>>

\* create_session: an existing session of the user is ended first
CreateSession(u) ==
    LET old == by_user[u]
        th == heap[old].thread_id
        sid == Len(heap) + 1
    IN /\ ops < MaxCalls
       /\ heap' = Append(heap, NewSession(u, saved[u]))
       /\ by_user' = [by_user EXCEPT ![u] = sid]
       /\ by_thread' = IF old # 0 /\ th # 0 /\ by_thread[th] # 0
                       THEN [by_thread EXCEPT ![th] = 0] ELSE by_thread
       /\ locks' = IF old # 0 THEN [locks EXCEPT ![u] = 0] ELSE locks
       /\ ManagerCall("create_session", u, 0, sid)
       /\ UNCHANGED nlocks

AssociateThread(u, th) ==
    LET cur == by_user[u]
    IN /\ ops < MaxCalls
       /\ IF cur = 0
          THEN UNCHANGED <<heap, by_thread>>
          ELSE /\ heap' = [heap EXCEPT ![cur].thread_id = th]
               /\ by_thread' = [by_thread EXCEPT ![th] = cur]
       /\ ManagerCall("associate_thread_to_session", u, th, 0)
       /\ UNCHANGED <<by_user, locks, nlocks>>

EndSessionCall(u) ==
    /\ ops < MaxCalls
    /\ EndSession(u)
    /\ ManagerCall("end_session", u, 0, by_user[u])
    /\ UNCHANGED <<heap, nlocks>>

GetLockCall(u) ==
    /\ ops < MaxCalls
    /\ GetLock(u)
    /\ ManagerCall("get_lock", u, 0, 0)
    /\ UNCHANGED <<heap, by_user, by_thread>>

NextManager ==
    \E u \in Players :
        \/ CreateSession(u)
        \/ \E th \in SessionIds : AssociateThread(u, th)
        \/ EndSessionCall(u)
        \/ GetLockCall(u)

SpecManager == Init /\ [][NextManager]_vars

\* ------------------------------------------------ AIService.generate_response
\* One generate_response invocation per task.  task.snap is the list of the
\* backend's answers to this invocation so far, task.arg is the loop
\* variable attempt.  An answer either decodes, fails to decode
\* (json.JSONDecodeError) or is a failure of another kind (transport error,
\* no content).
Retries == 2
BackendAnswers == {"json", "undecodable", "transport_error"}

\* an exit test that allows one attempt more
LastAttemptOffByOne(attempt) == attempt = Retries + 1

\* if attempt == retries: raise
LastAttempt(attempt) == attempt = Retries

GenerateResponse(t) ==
    /\ FirstIdle(t)
    /\ ops < MaxOps
    /\ ops' = ops + 1
    /\ task' = [task EXCEPT ![t] = [IdleTask EXCEPT !.pc = "backend",
                                                    !.kind = "generate_response"]]
    /\ UNCHANGED <<heap, by_user, by_thread, locks, holder, waiters, nlocks,
                   saved, events>>

\* the awaited chat.completions.create call comes back
BackendAnswer(t, answer) ==
    LET attempt == task[t].arg
        log == Append(task[t].snap, answer)
    IN /\ task[t].pc = "backend"
       /\ task[t].kind = "generate_response"
       /\ task' =
            CASE answer = "json" ->
                   [task EXCEPT ![t].pc = "returned", ![t].snap = log]
              [] answer = "undecodable" /\ ~LastAttempt(attempt) ->
                   [task EXCEPT ![t].arg = attempt + 1, ![t].snap = log]
              [] OTHER ->
                   [task EXCEPT ![t].pc = "raised", ![t].snap = log,
                                ![t].err = "AIConnectionError"]
       /\ UNCHANGED <<heap, by_user, by_thread, locks, holder, waiters, nlocks,
                      saved, events, ops>>

\* the caller has taken the result or the exception
GenerateResponseOver(t) ==
    /\ task[t].kind = "generate_response"
    /\ task[t].pc \in {"returned", "raised"}
    /\ task' = [task EXCEPT ![t] = IdleTask]
    /\ UNCHANGED <<heap, by_user, by_thread, locks, holder, waiters, nlocks,
                   saved, events, ops>>

NextAI ==
    \E t \in Tasks :
        \/ GenerateResponse(t)
        \/ \E answer \in BackendAnswers : BackendAnswer(t, answer)
        \/ GenerateResponseOver(t)

SpecAI == Init /\ [][NextAI]_vars

\* ================================================================ properties
ActiveSessions == {by_user[u] : u \in Users} \ {0}

\* a proceed_game call that has run to its end (returned or raised)
CallOver(t) == task[t].pgpre # <<>> /\ task[t].pc \in {"respond", "failed"}

SerialOutcome(s0, a, b) ==
    proceed_game(proceed_game(s0, ActionText(task[a].kind), task[a].pgrep),
                 ActionText(task[b].kind), task[b].pgrep)

\* C1: whenever two proceed_game calls on the same session (thread message
\* or /next) have both run to their end and no other handler ran since the
\* first of them was entered, the session equals the outcome of running the
\* two calls, with the replies they got, one after the other in one of the
\* two orders, starting from the session the first call found.
C1_TwoCallsSerializable ==
    \A a, b \in Tasks :
        ( /\ a # b
          /\ CallOver(a) /\ CallOver(b)
          /\ task[a].sid = task[b].sid
          /\ task[a].pgfirst /\ ops = task[a].pgbase )
        => LET s0 == task[a].pgpre[1]
           IN \/ heap[task[a].sid] = SerialOutcome(s0, a, b)
              \/ heap[task[a].sid] = SerialOutcome(s0, b, a)

\* a task is inside "async with lock" for a lock object it got from get_lock
InCritical(t) == task[t].lock # 0 /\ holder[task[t].lock] = t

\* C2: for each user at most one task at a time is inside a critical
\* section guarded by a lock obtained from get_lock(user).
C2_OneTaskInCriticalSection ==
    \A u \in Users :
        Cardinality({t \in Tasks : task[t].user = u /\ InCritical(t)}) <= 1

\* C3: a handler that has mutated the user's session (proceed_game, item
\* use, equip, buy, flee, stat point spend) holds the user's lock.
C3_MutationsUnderLock ==
    \A t \in Tasks : task[t].opmut => InCritical(t)

\* C4: never two AI backend calls (generate_response, generate_introduction)
\* in flight for the same user.
C4_OneAICallInFlight ==
    \A u \in Users :
        Cardinality({t \in Tasks : task[t].user = u
                                   /\ task[t].pc \in {"ai_wait", "sg_intro"}}) <= 1

\* the AI call made by proceed_game failed in handler t
AIFailedIn(t) == task[t].pgrep = "fail" /\ task[t].err = "AIConnectionError"

\* C5: when the AI call of a proceed_game call fails, the call ends with
\* AIConnectionError, it has changed nothing of the session (character,
\* history, turn counter, location, NPC overlay, combat state) since it was
\* entered, and it has published no TURN_PROCESSED; when no other handler
\* ran during the call, the session is the one the call found.
C5_AIFailureCommitsNothing ==
    \A t \in Tasks :
        task[t].pgrep = "fail" /\ task[t].err # "AttributeError"
        => /\ task[t].pc = "failed"
           /\ task[t].err = "AIConnectionError"
           /\ ~task[t].pgmut
           /\ ~task[t].published
           /\ (task[t].pgpre # <<>> /\ task[t].alone
                  => heap[task[t].sid] = task[t].pgpre[1])

\* C5 witness: a turn was played, and the AI call of a later proceed_game
\* call on that session failed
C5_Witness ==
    \E t \in Tasks :
        /\ AIFailedIn(t)
        /\ task[t].kind \in PlainKinds
        /\ task[t].alone
        /\ heap[task[t].sid].turn_count >= 1

\* C6: when the AI call fails during use_item, buy_item or equip_item, the
\* handler has mutated nothing (item still there, gold not deducted, slot
\* and inventory as before).
C6_ItemOpFailureCommitsNothing ==
    \A t \in Tasks :
        AIFailedIn(t) /\ task[t].kind \in {"use", "buy", "equip"} => ~task[t].opmut

\* xp earned in all: the xp of the levels gained plus the current xp
XpEarned(c) == c.xp + 50 * c.level * (c.level - 1)

RECURSIVE AllIn(_, _)
AllIn(items, inventory) ==
    items = <<>> \/ (InSeq(Head(items), inventory) /\ AllIn(Tail(items), inventory))

\* the character holds the rewards of the enemies on top of what c held
Rewarded(c, enemies, after) ==
    /\ XpEarned(after) = XpEarned(c) + RewardXpOf(enemies)
    /\ after.gold = c.gold + RewardGoldOf(enemies)
    /\ AllIn(RewardItemsOf(enemies), after.inventory)

\* C7: for every session in combat with N enemies, a proceed_game turn
\* whose reply ends the combat (the encounter is won in that turn) leaves
\* the character with xp, gold and items grown by the sum of the N reward
\* tables, once, and the combat over.
C7_EncounterRewardsOnce ==
    \A sid \in ActiveSessions :
        heap[sid].in_combat
        => LET after == proceed_game(heap[sid], "input", "end")
           IN /\ ~after.in_combat
              /\ Rewarded(heap[sid].character, heap[sid].current_enemies,
                          after.character)

\* C8: for every session in combat with one enemy left, a proceed_game turn
\* whose reply carries damage of at least that enemy's HP removes the
\* enemy, ends the combat in the same call and grants that enemy's rewards.
C8_LastEnemyDefeatEndsCombat ==
    \A sid \in ActiveSessions :
        ( /\ heap[sid].in_combat
          /\ Len(heap[sid].current_enemies) = 1
          /\ ReplyNamed("hit").enemy_damage >= heap[sid].current_enemies[1].hp )
        => LET after == proceed_game(heap[sid], "input", "hit")
           IN /\ after.current_enemies = <<>>
              /\ ~after.in_combat
              /\ Rewarded(heap[sid].character, heap[sid].current_enemies,
                          after.character)

\* C9: once every handler has returned, no session is registered whose
\* character is dead: the turn in which the HP reached 0 answered with
\* game_over and the session was destroyed.
C9_DeathEndsSession ==
    (\A t \in Tasks : task[t].pc = "idle")
    => \A sid \in ActiveSessions : ~is_dead(heap[sid].character)

\* the declared requirement of a location is met by the session
RequirementMet(s, loc) ==
    /\ ReqItem(loc) # None => InSeq(ReqItem(loc), s.character.inventory)
    /\ ReqQuest(loc) # <<>> => s.quests[ReqQuest(loc)[1]] = ReqQuest(loc)[2]

\* C10: no step changes a session's current_location_id to a location whose
\* requirement the session did not meet when the step was taken.
C10_NoMoveWithoutRequirement ==
    [][\A sid \in DOMAIN heap :
          heap'[sid].current_location_id # heap[sid].current_location_id
          => RequirementMet(heap[sid], heap'[sid].current_location_id)]_vars

\* the reply a turn of task t got in the step just taken
TurnApplied(t) ==
    /\ task[t].pc = "ai_wait"
    /\ task'[t].pgrep \notin {"fail", "pending", None}

\* reply r proposes a move to a location whose required item s lacks
DeniedItemMove(s, r) ==
    /\ r.sc /\ r.cur_loc \in Locations
    /\ ReqItem(r.cur_loc) # None
    /\ ~InSeq(ReqItem(r.cur_loc), s.character.inventory)

LastEntry(s) == s.conversation_history[Len(s.conversation_history)]

\* C11: when the reply of a turn proposes current_location_id = X and X
\* requires an item the character lacks, the turn leaves the session's
\* location as it was, the narrative recorded for the turn carries the
\* denial note, and the other keys of the bundle (xp, hp, gold, items) are
\* applied to the character.
C11_DeniedMoveKeepsLocation ==
    [][\A t \in Tasks :
          (TurnApplied(t)
           /\ DeniedItemMove(heap[task[t].sid], ReplyNamed(task'[t].pgrep)))
          => LET before == heap[task[t].sid]
                 after == heap'[task[t].sid]
                 r == ReplyNamed(task'[t].pgrep)
             IN /\ after.current_location_id = before.current_location_id
                /\ after.conversation_history # <<>>
                /\ InSeq("denied_item", LastEntry(after).notes)
                /\ after.character = apply_state_changes(before.character, r)]_vars

\* the number of entries of a conversation history whose notes carry note
RECURSIVE TimesNoted(_, _)
TimesNoted(history, note) ==
    IF history = <<>> THEN 0
    ELSE (IF InSeq(note, Head(history).notes) THEN 1 ELSE 0)
         + TimesNoted(Tail(history), note)

\* C12: within one session, the on_enter event of a location is injected at
\* most once, however many turns move the player into that location.
C12_OnEnterAtMostOnce ==
    \A sid \in ActiveSessions :
        \A loc \in Locations :
            OnEnter(loc) # NoEvent
            => TimesNoted(heap[sid].conversation_history,
                          OnEnter(loc).narrative) <= 1

\* C13: in every session ever created, current_enemies is empty exactly when
\* in_combat is false.
C13_EnemiesIffInCombat ==
    \A sid \in 1..Len(heap) :
        (heap[sid].current_enemies = <<>>) <=> ~heap[sid].in_combat

\* a session that was in combat and left it by a successful flee
C13_Witness ==
    \E sid \in 1..Len(heap) :
        /\ ~heap[sid].in_combat /\ heap[sid].current_enemies = <<>>
        /\ heap[sid].conversation_history # <<>>
        /\ LastEntry(heap[sid]).content = "fled"

\* reply r starts a combat and lists known enemy templates only
StartsCombat(r) ==
    /\ r.sc /\ r.combat = "start"
    /\ r.enemies # <<>> /\ KnownEnemies(r.enemies) = r.enemies

\* C14: when the reply applied to a session that is not in combat carries
\* combat status "start" with k >= 1 known enemy template ids, the session
\* is afterwards in combat, it is the player's turn, and current_enemies
\* holds exactly k enemies, one per listed id, each at full HP.
C14_CombatStartCreatesEnemies ==
    [][\A t \in Tasks :
          (TurnApplied(t)
           /\ ~heap[task[t].sid].in_combat
           /\ StartsCombat(ReplyNamed(task'[t].pgrep)))
          => LET after == heap'[task[t].sid]
                 ids == ReplyNamed(task'[t].pgrep).enemies
             IN /\ after.in_combat
                /\ after.combat_turn = "player"
                /\ Len(after.current_enemies) = Len(ids)
                /\ \A i \in 1..Len(ids) :
                       /\ after.current_enemies[i].enemy_id = ids[i]
                       /\ after.current_enemies[i].hp = EnemyHp(ids[i])
                       /\ after.current_enemies[i].max_hp = EnemyHp(ids[i])]_vars

\* C15: after every call of take_damage, heal_hp, spend_mp or recover_mp,
\* with an amount of either sign, on a character that started with hp in
\* 0..max_hp and mp in 0..max_mp, hp is in 0..max_hp and mp is in 0..max_mp.
C15_VitalsStayInRange ==
    /\ 0 <= Subject.hp /\ Subject.hp <= Subject.max_hp
    /\ 0 <= Subject.mp /\ Subject.mp <= Subject.max_mp

\* C16: after every call of equip, unequip, add_item or remove_item, with
\* any item name and slot, on a character whose inventory and equipment
\* started disjoint, no item name is both in the inventory and in an
\* equipment slot.
C16_InventoryEquipmentDisjoint ==
    Held(Subject) \cap Equipped(Subject) = {}

\* the last call was add_xp(amount) on a character with no experience
AddXpFromZero(amount) ==
    /\ LastCall.kind = "add_xp"
    /\ SubjectBefore.xp = 0
    /\ LastCall.arg = amount

\* the last add_xp call raised the level by n and left xp experience
LevelsGained(n, xp) ==
    /\ Subject.level = SubjectBefore.level + n
    /\ Subject.xp = xp
    /\ Subject.stat_points = SubjectBefore.stat_points + n
    /\ Subject.skill_points = SubjectBefore.skill_points + 5 * n

\* C17: add_xp(L * 100) on a character of level L with 0 xp returns true
\* and leaves level L + 1, xp 0, one more stat point and five more skill
\* points.
C17_ExactThresholdLevelsOnce ==
    LastCall.kind = "add_xp" /\ AddXpFromZero(SubjectBefore.level * 100)
    => LastCall.ret /\ LevelsGained(1, 0)

\* add_xp(L * 100) was called at a level L >= 2 with 0 xp
C17_Witness ==
    /\ LastCall.kind = "add_xp" /\ AddXpFromZero(SubjectBefore.level * 100)
    /\ SubjectBefore.level >= 2
    /\ Subject.level = SubjectBefore.level + 1

\* C18 as stated: a single add_xp(2 * L * 100) on a character of level L
\* with 0 xp raises the level by two, to L + 2.
C18_DoubleThresholdLevelsTwice ==
    LastCall.kind = "add_xp" /\ AddXpFromZero(2 * SubjectBefore.level * 100)
    => Subject.level = SubjectBefore.level + 2

\* C18 amended: a single add_xp(2 * L * 100) on a character of level L with
\* 0 xp raises the level by one only, to L + 1, and leaves L * 100 xp; the
\* single call that raises the level by two, to L + 2 with 0 xp, is
\* add_xp(L * 100 + (L + 1) * 100).
C18_DoubleThresholdLevelsOnce ==
    /\ LastCall.kind = "add_xp" /\ AddXpFromZero(2 * SubjectBefore.level * 100)
       => LastCall.ret /\ LevelsGained(1, SubjectBefore.level * 100)
    /\ LastCall.kind = "add_xp"
       /\ AddXpFromZero(SubjectBefore.level * 100 + (SubjectBefore.level + 1) * 100)
       => LastCall.ret /\ LevelsGained(2, 0)

\* add_xp(2 * L * 100) was called at a level L >= 2 with 0 xp
C18_Witness ==
    /\ LastCall.kind = "add_xp" /\ AddXpFromZero(2 * SubjectBefore.level * 100)
    /\ SubjectBefore.level >= 2
    /\ Subject.xp = SubjectBefore.level * 100

\* SessionManager.get_session and get_session_by_thread_id, 0 for None
get_session(u) == by_user[u]
get_session_by_thread_id(th) == by_thread[th]

\* C19: the thread index agrees with the user index: a session returned by
\* get_session_by_thread_id is the session get_session returns for its
\* user, and a registered session with thread id th is the session
\* get_session_by_thread_id(th) returns.
C19_ThreadIndexAgrees ==
    /\ \A th \in SessionIds :
           get_session_by_thread_id(th) # 0
           => get_session(heap[get_session_by_thread_id(th)].user_id)
                = get_session_by_thread_id(th)
    /\ \A u \in Users :
           get_session(u) # 0 /\ heap[get_session(u)].thread_id # 0
           => get_session_by_thread_id(heap[get_session(u)].thread_id)
                = get_session(u)

\* the step is an end_session call
EndSessionStep == ops' = ops + 1 /\ task'["t1"].kind = "end_session"

\* C20: end_session(u) for a registered user returns the session registered
\* for u, and afterwards u has no session, that session's thread id resolves
\* to no session and the lock table has no entry for u; for an unregistered
\* user it returns None and changes nothing.
C20_EndSessionCleansUp ==
    [][EndSessionStep
       => LET u == task'["t1"].user
              s == get_session(u)
          IN IF s # 0
             THEN /\ task'["t1"].sid = s
                  /\ by_user'[u] = 0
                  /\ heap[s].thread_id # 0 => by_thread'[heap[s].thread_id] = 0
                  /\ locks'[u] = 0
             ELSE /\ task'["t1"].sid = 0
                  /\ UNCHANGED <<heap, by_user, by_thread, locks, nlocks>>]_vars

\* end_session has ended a session that had a thread and whose user had a
\* lock entry
C20_Witness ==
    /\ LastCall.kind = "end_session"
    /\ LastCall.sid # 0 /\ LastCall.lock # 0
    /\ heap[LastCall.sid].thread_id # 0
    /\ by_user[LastCall.user] = 0

\* all answers of log but the last one
AllButLast(log) == {log[i] : i \in 1..(Len(log) - 1)}

\* C21: one generate_response invocation makes at most Retries + 1 backend
\* calls, each but the last answered by an undecodable reply; it returns
\* exactly on the first reply that decodes, raises AIConnectionError on the
\* third undecodable reply, and raises AIConnectionError on a transport
\* failure without a further call.
C21_BoundedRetries ==
    \A t \in Tasks :
        task[t].kind = "generate_response"
        => LET log == task[t].snap
           IN /\ Len(log) <= Retries + 1
              /\ AllButLast(log) \subseteq {"undecodable"}
              /\ task[t].pc = "backend"
                 => Len(log) <= Retries /\ \A i \in 1..Len(log) : log[i] = "undecodable"
              /\ task[t].pc = "returned" => log[Len(log)] = "json"
              /\ task[t].pc = "raised"
                 => /\ task[t].err = "AIConnectionError"
                    /\ \/ log[Len(log)] = "transport_error"
                       \/ log[Len(log)] = "undecodable" /\ Len(log) = Retries + 1

\* an invocation has raised after three undecodable replies
C21_Witness ==
    \E t \in Tasks :
        /\ task[t].kind = "generate_response" /\ task[t].pc = "raised"
        /\ task[t].snap = <<"undecodable", "undecodable", "undecodable">>

\* the validation of the item and flee calls fails on session s
FailsValidation(kind, item, s) ==
    \/ kind \in {"use", "equip"} /\ ~InSeq(item, s.character.inventory)
    \/ kind = "buy" /\ s.character.gold < Price(item)
    \/ kind = "flee" /\ ~s.in_combat

\* C22: use_item or equip_item naming an item that is not in the inventory,
\* buy_item with gold below the price, flee_combat outside combat, and each
\* of them without an active session, raise GameError or
\* SessionNotFoundError in the step that enters the call: no AI call is
\* made or awaited and no session object is changed.
C22_ValidationFailsBeforeAnything ==
    [][\A t \in Tasks :
          (/\ task[t].pc = "called" /\ task'[t].pc # "called"
           /\ task[t].kind \in InteractionKinds \ {"next"}
           /\ \/ by_user[task[t].user] = 0
              \/ FailsValidation(task[t].kind, task[t].item,
                                 heap[by_user[task[t].user]]))
          => /\ task'[t].pc = "failed"
             /\ task'[t].err = IF by_user[task[t].user] = 0
                               THEN "SessionNotFoundError" ELSE "GameError"
             /\ task'[t].pgrep = None
             /\ heap' = heap]_vars

\* buy_item was refused for lack of gold
C22_Witness ==
    \E t \in Tasks :
        /\ task[t].pc = "failed" /\ task[t].kind = "buy"
        /\ task[t].err = "GameError" /\ task[t].sid # 0
        /\ task[t].item \in ShopItems
        /\ heap[task[t].sid].current_location_id = ShopLocation
        /\ heap[task[t].sid].character.gold < Price(task[t].item)

\* task t starts handling a thread message of user u in this step
MessageArrives(t, u) ==
    /\ task[t].pc = "idle"
    /\ task'[t].kind = "message" /\ task'[t].user = u

\* C23: a thread message that arrives while the lock get_lock returns for
\* its user is held gets the processing marker at once; its handler never
\* waits on the lock and never calls proceed_game, it only returns.
C23_BusyMessageIsDeferred ==
    [][\A t \in Tasks :
          /\ \A u \in Users :
                 MessageArrives(t, u) /\ holder[LockOf(u)] # None
                 => /\ task'[t].pc = "msg_busy"
                    /\ task'[t].lock = 0
                    /\ \A l \in LockIds : ~InSeq(t, waiters'[l])
          /\ task[t].pc = "msg_busy"
             => /\ task'[t].pc \in {"msg_busy", "idle"}
                /\ task'[t].pgpre = <<>> /\ task'[t].pgrep = None]_vars

\* a message was deferred while another task held the user's lock
C23_Witness ==
    \E t \in Tasks :
        /\ task[t].pc = "msg_busy"
        /\ \E o \in Tasks \ {t} : InCritical(o) /\ task[o].user = task[t].user

\* no task other than t is running a handler for user u
NoOtherTaskOf(t, u) ==
    \A o \in Tasks \ {t} : task[o].pc = "idle" \/ task[o].user # u

\* C24: distinct users have distinct lock objects; a task that waits on a
\* lock waits on one held for its own user; and a thread message of a user
\* for whom no other handler runs enters its turn at once, whatever the
\* handlers of other users hold.
C24_UsersDoNotBlockEachOther ==
    /\ [](\A u, v \in Users :
             u # v /\ locks[u] # 0 => locks[u] # locks[v])
    /\ [](\A t, o \in Tasks :
             task[t].pc = "wait_lock" /\ holder[task[t].lock] = o
             => task[o].user = task[t].user)
    /\ [][\A t \in Tasks : \A u \in Users :
             MessageArrives(t, u) /\ NoOtherTaskOf(t, u)
             => /\ task'[t].pc = "called"
                /\ holder'[task'[t].lock] = t]_vars

\* the turns of two different users are in progress at the same time, each
\* under its own lock
C24_Witness ==
    \E t, o \in Tasks :
        /\ task[t].user # task[o].user
        /\ task[t].pc = "ai_wait" /\ task[o].pc = "ai_wait"
        /\ InCritical(t) /\ InCritical(o)
        /\ task[t].lock # task[o].lock

\* C25: a flee_combat whose roll succeeds ends combat in the step of the
\* call (in_combat false, current_enemies empty), returns without an AI call
\* and without an event, and leaves the character's xp, level, gold and
\* inventory as they were.
C25_FleeEndsCombatWithoutReward ==
    [][\A t \in Tasks :
          (/\ task[t].pc = "called" /\ task'[t].pc # "called"
           /\ task[t].kind = "flee" /\ by_user[task[t].user] # 0
           /\ heap[by_user[task[t].user]].in_combat
           /\ FleeSuccess(heap[by_user[task[t].user]], task'[t].arg))
          => LET before == heap[by_user[task[t].user]]
                 after == heap'[by_user[task[t].user]]
             IN /\ ~after.in_combat /\ after.current_enemies = <<>>
                /\ task'[t].pc = "respond" /\ task'[t].pgrep = None
                /\ events' = events
                /\ after.character.xp = before.character.xp
                /\ after.character.level = before.character.level
                /\ after.character.gold = before.character.gold
                /\ after.character.inventory = before.character.inventory]_vars

\* a flee attempt has succeeded
C25_Witness ==
    \E t \in Tasks :
        /\ task[t].kind = "flee" /\ task[t].pc = "respond"
        /\ task[t].arg \in Rolls
        /\ ~heap[task[t].sid].in_combat
        /\ LastEntry(heap[task[t].sid]).content = "fled"

\* C26: on a character whose quest lists started disjoint and free of
\* duplicates, after every start_quest, complete_quest and quest_updates
\* bundle no quest id is in both lists, neither list holds an id twice, and
\* a quest that is in completed_quests is not in active_quests after any
\* further call.
C26_QuestListsStayExclusive ==
    /\ [](/\ Disjoint(Subject.active_quests, Subject.completed_quests)
          /\ NoDuplicates(Subject.active_quests)
          /\ NoDuplicates(Subject.completed_quests))
    /\ [][\A q \in QuestIds :
             InSeq(q, heap[1].character.completed_quests)
             => /\ ~InSeq(q, heap'[1].character.active_quests)
                /\ InSeq(q, heap'[1].character.completed_quests)]_vars

\* start_quest was called for a quest that is completed
C26_Witness ==
    /\ LastCall.kind = "start_quest"
    /\ InSeq(LastCall.item, SubjectBefore.completed_quests)
    /\ InSeq(LastCall.item, Subject.completed_quests)

\* C27: after any sequence of add_history calls the conversation history
\* holds at most 20 entries, and they are the entries added last, in the
\* order in which they were added (the oldest entry is the one evicted).
C27_HistoryKeepsNewestTwenty ==
    LET added == task["t1"].snap
        history == heap[1].conversation_history
    IN /\ Len(history) <= 20
       /\ Len(history) = IF Len(added) <= 20 THEN Len(added) ELSE 20
       /\ history = SubSeq(added, Len(added) - Len(history) + 1, Len(added))

\* more than 20 entries have been added
C27_Witness ==
    /\ task["t1"].kind = "add_history"
    /\ Len(task["t1"].snap) > 20
    /\ Len(heap[1].conversation_history) = 20

\* the level of a skill, 0 for one the character does not have
SkillLevel(c, skill_name) ==
    IF skill_name \in DOMAIN c.skills THEN c.skills[skill_name] ELSE 0

\* C28: use_stat_point and use_skill_points either return false and leave
\* the character unchanged (no points, unknown stat, n <= 0 or n above
\* skill_points) or return true having taken from the pool exactly what they
\* added to the stat or skill; after any sequence of add_xp, use_stat_point
\* and use_skill_points calls both pools are >= 0.
C28_PointsSpentExactlyOrNotAtAll ==
    /\ Subject.stat_points >= 0
    /\ Subject.skill_points >= 0
    /\ LastCall.kind = "use_stat_point" =>
         LET stat == upper(LastCall.item)
             refused == \/ SubjectBefore.stat_points = 0
                        \/ stat \notin {"STR", "DEX", "CON"}
         IN /\ LastCall.ret = ~refused
            /\ ~LastCall.ret => Subject = SubjectBefore
            /\ LastCall.ret =>
                 /\ SubjectBefore.stat_points - Subject.stat_points = 1
                 /\ Subject.base_stats[stat] - SubjectBefore.base_stats[stat] = 1
                 /\ Subject = [SubjectBefore EXCEPT
                                 !.stat_points = Subject.stat_points,
                                 !.base_stats[stat] = Subject.base_stats[stat]]
    /\ LastCall.kind = "use_skill_points" =>
         LET n == LastCall.arg
             skill == LastCall.item
             refused == n <= 0 \/ n > SubjectBefore.skill_points
         IN /\ LastCall.ret = ~refused
            /\ ~LastCall.ret => Subject = SubjectBefore
            /\ LastCall.ret =>
                 /\ SubjectBefore.skill_points - Subject.skill_points = n
                 /\ SkillLevel(Subject, skill) - SkillLevel(SubjectBefore, skill) = n
                 /\ \A k \in DOMAIN SubjectBefore.skills \ {skill} :
                       Subject.skills[k] = SubjectBefore.skills[k]
                 /\ DOMAIN Subject.skills = DOMAIN SubjectBefore.skills \cup {skill}
                 /\ [Subject EXCEPT !.skills = <<>>, !.skill_points = 0]
                    = [SubjectBefore EXCEPT !.skills = <<>>, !.skill_points = 0]

\* points from a level-up were spent on a skill the character did not have
C28_Witness ==
    /\ LastCall.kind = "use_skill_points"
    /\ LastCall.ret
    /\ LastCall.item \notin DOMAIN SubjectBefore.skills
    /\ SubjectBefore.level > 1
    /\ Subject.skill_points > 0

\* C29: end_game saves the character before it removes the session: when
\* the save fails the session is still registered and nothing was removed;
\* when no session exists end_game raises the not-found error without
\* saving or publishing; GAME_ENDED is published only once the session has
\* been removed.
C29_EndGameSavesThenRemoves ==
    [][\A t \in Tasks :
         LET u == task[t].user
         IN /\ (task[t].pc = "eg_saving" /\ task'[t].err = "SaveError")
                 => /\ by_user'[u] = task[t].sid
                    /\ by_user' = by_user
                    /\ by_thread' = by_thread
                    /\ events' = events
            /\ (task[t].pc \in {"eg_defer", "respond"}
                /\ task'[t].err = "SessionNotFoundError")
                 => saved' = saved /\ events' = events
            /\ (task[t].pc = "eg_saving" /\ task'[t].pc # "eg_saving"
                /\ events'.ended > events.ended)
                 => by_user'[u] = 0
            /\ (task[t].pc = "eg_saving" /\ task'[t].pc # "eg_saving"
                /\ by_user[u] # 0 /\ by_user'[u] = 0)
                 => saved'[u] = SavedDocument(task[t].snap[1],
                                              heap[task[t].sid].character)]_vars

\* C30: when combat is still active after the player's action has been
\* applied, the same proceed_game call sets combat_turn to "enemy", makes
\* one further AI call for the enemy's turn, applies its state_changes and
\* sets combat_turn back to "player" before it returns. So a proceed_game
\* call that returns with the session in combat returns from an AI call
\* that was made with combat_turn = "enemy".
C30_EnemyTurnFollowsPlayerAction ==
    [][\A t \in Tasks :
         (/\ task[t].pc = "ai_wait"
          /\ task'[t].pc = "respond"
          /\ heap'[task[t].sid].in_combat)
         => /\ heap[task[t].sid].combat_turn = "enemy"
            /\ heap'[task[t].sid].combat_turn = "player"]_vars

\* C31: when the AI reply proposes state_changes.current_location_id = X
\* and location X has no unmet requirement, the session's
\* current_location_id is X once proceed_game has returned.
C31_AllowedMoveIsApplied ==
    [][\A t \in Tasks :
         (/\ task[t].pc = "ai_wait"
          /\ task'[t].pc = "respond"
          /\ ReplyNamed(task'[t].pgrep).cur_loc \in Locations
          /\ ~Denied(GateNote(heap[task[t].sid], ReplyNamed(task'[t].pgrep))))
         => heap'[task[t].sid].current_location_id
              = ReplyNamed(task'[t].pgrep).cur_loc]_vars

\* C32: a reply whose state_changes.npc_updates is a list of {id, fields}
\* objects makes proceed_game return normally with npc_states[id] holding
\* the listed fields; such a reply never makes the turn raise.
C32_NpcUpdateListIsApplied ==
    [][\A t \in Tasks :
         (/\ task[t].pc = "ai_wait"
          /\ task'[t].pc # "ai_wait"
          /\ ~task[t].was_in_combat
          /\ ReplyNamed(task'[t].pgrep).npc_updates = "list")
         => /\ task'[t].pc = "respond"
            /\ heap'[task[t].sid].npc_states[NpcUpdateId]
                 = NpcUpdateDisposition]_vars

C34_FailedFleeAsksTheAI ==
    [][\A t \in Tasks :
         (/\ task[t].pc = "called" /\ task[t].kind = "flee"
          /\ by_user[task[t].user] # 0
          /\ heap[by_user[task[t].user]].in_combat
          /\ task'[t].pc # "called"
          /\ ~FleeSuccess(heap[by_user[task[t].user]], task'[t].arg))
         => /\ task'[t].pc = "ai_wait"
            /\ task'[t].err = None
            /\ heap'[by_user[task[t].user]].in_combat
            /\ heap'[by_user[task[t].user]].combat_turn = "player"]_vars

\* the number of copies of an item in an inventory
CopiesOf(item, inventory) ==
    Cardinality({i \in 1..Len(inventory) : inventory[i] = item})

\* C35: every buy_item that passes its checks lowers gold by exactly the
\* price, leaves gold >= 0 and raises the number of copies of the item in
\* the inventory by exactly one, whether or not a copy was already held.
C35_BuyAddsOneCopy ==
    [][\A t \in Tasks :
         (/\ task[t].pc = "called" /\ task[t].kind = "buy"
          /\ task'[t].pc = "ai_wait")
         => LET before == heap[by_user[task[t].user]].character
                after == heap'[by_user[task[t].user]].character
            IN /\ after.gold = before.gold - Price(task[t].item)
               /\ after.gold >= 0
               /\ CopiesOf(task[t].item, after.inventory)
                    = CopiesOf(task[t].item, before.inventory) + 1]_vars

\* C36: what end_game saved includes the effects of every turn started for
\* the user before it: once end_game has saved the character and removed
\* the session, no call that began earlier changes that character.
C36_NoChangeAfterEndGame ==
    [][\A sid \in 1..Len(heap) :
         (events.ended > 0 /\ by_user[heap[sid].user_id] # sid)
         => heap'[sid].character = heap[sid].character]_vars

\* C37: when start_game fails because the introduction AI call fails, no
\* session stays registered for the user: has_session(user) is false once
\* start_game has raised.
C37_FailedStartLeavesNoSession ==
    [][\A t \in Tasks :
         (/\ task[t].pc = "sg_intro"
          /\ task'[t].pc = "failed"
          /\ task'[t].err = "AIConnectionError")
         => by_user'[task[t].user] = 0]_vars

\* C38: every lock a handler acquired is released when the handler returns
\* or raises, and no handler acquires or waits for a lock while it holds
\* one; so, when every AI and I/O call returns, a held lock becomes free,
\* and a message that finds the user's lock free is processed as a turn.
C38_LocksAreReleased ==
    /\ [](\A l \in LockIds :
            holder[l] # None
            => /\ task[holder[l]].pc \notin {"idle", "wait_lock"}
               /\ task[holder[l]].lock = l)
    /\ [][\A t \in Tasks : \A l \in LockIds :
            (holder[l] # t /\ holder'[l] = t)
            => \A k \in LockIds : holder[k] # t]_vars
    /\ [][\A t \in Tasks : \A u \in Users :
            (MessageArrives(t, u) /\ Free(LockOf(u)))
            => task'[t].pc = "called" /\ holder'[LockOf(u)] = t]_vars
    /\ \A l \in LockIds : (holder[l] # None) ~> (holder[l] = None)
    /\ \A t \in Tasks : (task[t].pc = "wait_lock") ~> (task[t].pc = "idle")

\* /end_game waits for the lock that a turn or /add_xp holds
C38_Witness ==
    \E t \in Tasks : \E o \in Tasks \ {t} :
        /\ task[t].pc = "wait_lock" /\ task[t].kind = "end"
        /\ holder[task[t].lock] = o
        /\ task[o].kind \in {"message", "add_xp"}

\* C39: for a character with level >= 1 and 0 <= xp < level * 100,
\* add_xp(amount) with amount >= 0 terminates and leaves
\* 0 <= xp < level * 100 for the new level, never lowers the level, raises
\* stat_points by the number of levels gained and skill_points by five
\* times that number, and returns true exactly when the level rose.
C39_AddXpKeepsXpBelowThreshold ==
    (/\ LastCall.kind = "add_xp"
     /\ SubjectBefore.level >= 1
     /\ SubjectBefore.xp >= 0 /\ SubjectBefore.xp < SubjectBefore.level * 100
     /\ LastCall.arg >= 0)
    => LET gained == Subject.level - SubjectBefore.level
       IN /\ Subject.xp >= 0 /\ Subject.xp < Subject.level * 100
          /\ gained >= 0
          /\ Subject.stat_points = SubjectBefore.stat_points + gained
          /\ Subject.skill_points = SubjectBefore.skill_points + 5 * gained
          /\ LastCall.ret = (gained > 0)

\* one add_xp call raised the level by two or more
C39_Witness ==
    /\ LastCall.kind = "add_xp"
    /\ SubjectBefore.xp = 50
    /\ Subject.level >= SubjectBefore.level + 2
    /\ LastCall.ret

====
